---------------------------- MODULE Spec2Model ----------------------------
(* A model of the streaming chat client of sinas-platform/chat:            *)
(*   - the chunk extractor (extractText, extractStreamChunk, parseSSEData) *)
(*   - the SSE frame decoder (consumeSSEStream, flushEvent)                *)
(*   - the streaming request orchestrator (sendMessageStream) with the     *)
(*     token store (authStorage.ts) and the axios 401 interceptor.         *)
(* Text is modelled by TLA+ strings (sequences of characters); JSON values *)
(* are tagged records.                                                     *)
EXTENDS Integers, Sequences, FiniteSets, TLC

VARIABLES
    phase,        \* which part of the program the behaviour exercises
    payload,      \* extractor: the decoded payload handed to extractStreamChunk
    result,       \* extractor: what extractStreamChunk returned
    whole,        \* stream: the bytes of the whole response body
    wire,         \* stream: the bytes the reader has not delivered yet
    isSSE,        \* stream: content-type includes "text/event-stream"
    dec,          \* stream: the locals of consumeSSEStream and its TextDecoder
    frames,       \* stream: the frames flushEvent has assembled (history)
    chunks,       \* stream: the chunks passed to onChunk, in order
    signal,       \* stream: the state of options.signal
    lateChunks,   \* stream: the onChunk calls made after the signal was triggered
    reader,       \* stream: the reader of the response body and its stream
    localStorage, \* auth: the workspace's authToken, refreshToken and user
    isRefreshing, \* auth: APIClient.isRefreshing
    failedQueue,  \* auth: APIClient.failedQueue, the calls whose request is parked
    pc,           \* auth: where each sendMessageStream call stands
    accessToken,  \* auth: the local accessToken of each call
    response,     \* auth: the local response of each call
    axios,        \* auth: the /auth/refresh request chain of each call
    posts,        \* auth: the bearer tokens of the streaming POSTs of each call
    answers,      \* auth: the responses to the streaming POSTs of each call
    refreshPosts, \* auth: the number of /auth/refresh requests sent for each call
    delivered,    \* auth: the chunks passed to each call's onChunk
    outcome,      \* auth: how each call settled
    location,     \* auth: window.location.href
    nextToken,    \* auth: the access token the backend issues next
    cache         \* page: the query cache entry ["chat", chatId]

extractVars == <<payload, result>>
streamVars == <<whole, wire, isSSE, dec, frames, chunks, signal, lateChunks,
                reader>>
authVars == <<localStorage, isRefreshing, failedQueue, pc, accessToken, response,
              axios, posts, answers, refreshPosts, delivered, outcome, location,
              nextToken>>
pageVars == <<cache>>
vars == <<phase, extractVars, streamVars, authVars, pageVars>>

-----------------------------------------------------------------------------
(* JavaScript strings                                                      *)

IsSpace(c) == c \in {" ", "\t", "\n", "\r"}

RECURSIVE trimStart(_)
trimStart(s) ==
    IF s = "" THEN ""
    ELSE IF IsSpace(Head(s)) THEN trimStart(Tail(s)) ELSE s

RECURSIVE trimEnd(_)
trimEnd(s) ==
    IF s = "" THEN ""
    ELSE IF IsSpace(SubSeq(s, Len(s), Len(s)))
         THEN trimEnd(SubSeq(s, 1, Len(s) - 1))
         ELSE s

trim(s) == trimEnd(trimStart(s))

-----------------------------------------------------------------------------
(* JSON values (the `unknown` of the source)                               *)

Undefined == [t |-> "undefined"]
JNull     == [t |-> "null"]
Str(s)    == [t |-> "string", v |-> s]
Num(n)    == [t |-> "number", v |-> n]
Arr(a)    == [t |-> "array", v |-> a]
Obj(f)    == [t |-> "object", v |-> f]

\* typeof x === "string"
IsString(x) == x.t = "string"
\* Array.isArray(x)
IsArray(x) == x.t = "array"
\* x == null
IsNullish(x) == x.t \in {"null", "undefined"}
\* typeof x === "object"   (arrays and null included)
TypeofObject(x) == x.t \in {"object", "array", "null"}
\* the truthiness of x
Truthy(x) ==
    CASE x.t = "undefined" -> FALSE
      [] x.t = "null"      -> FALSE
      [] x.t = "string"    -> x.v # ""
      [] x.t = "number"    -> x.v # 0
      [] x.t = "boolean"   -> x.v
      [] OTHER             -> TRUE

\* obj.k for an object or array obj (a missing property is undefined)
Get(x, k) ==
    IF x.t = "object" /\ k \in DOMAIN x.v THEN x.v[k] ELSE Undefined

-----------------------------------------------------------------------------
(* APIClient.extractText                                                   *)

\* a callback that goes into the content array of an element
ItemText_IntoContent(item) ==
    IF IsString(item) THEN item.v
    ELSE IF ~Truthy(item) \/ ~TypeofObject(item) THEN ""
    ELSE IF IsString(Get(item, "text")) THEN Get(item, "text").v
    ELSE IF IsString(Get(item, "content")) THEN Get(item, "content").v
    ELSE IF IsArray(Get(item, "content")) /\ Get(item, "content").v # <<>>
            /\ IsString(Get(item, "content").v[1])
        THEN Get(item, "content").v[1].v
    ELSE ""

\* the callback of value.map(...) at api.ts:132-143
ItemText(item) ==
    IF IsString(item) THEN item.v
    ELSE IF ~Truthy(item) \/ ~TypeofObject(item) THEN ""
    ELSE IF IsString(Get(item, "text")) THEN Get(item, "text").v
    ELSE IF IsString(Get(item, "content")) THEN Get(item, "content").v
    ELSE ""

\* value.map(...).filter(Boolean).join("") at api.ts:131-145
RECURSIVE JoinItems(_)
JoinItems(a) ==
    IF a = <<>> THEN "" ELSE ItemText(Head(a)) \o JoinItems(Tail(a))

extractText(value) ==
    IF IsString(value) THEN value.v
    ELSE IF IsNullish(value) THEN ""
    ELSE IF IsArray(value) THEN JoinItems(value.v)
    ELSE IF TypeofObject(value) THEN
        IF IsString(Get(value, "text")) THEN Get(value, "text").v
        ELSE IF IsString(Get(value, "content")) THEN Get(value, "content").v
        ELSE IF IsArray(Get(value, "content")) THEN JoinItems(Get(value, "content").v)
        ELSE ""
    ELSE ""

-----------------------------------------------------------------------------
(* APIClient.extractStreamChunk                                            *)

\* the `null` result
NoChunk == [text |-> "", mode |-> "null"]
Chunk(text, mode) == [text |-> text, mode |-> mode]

\* const choices = Array.isArray(payload.choices) ? payload.choices : []
ChoicesOf(p) == IF IsArray(Get(p, "choices")) THEN Get(p, "choices").v ELSE <<>>

\* choices.length > 0 && choices[0] && typeof choices[0] === "object"
HasFirstChoice(p) ==
    /\ Len(ChoicesOf(p)) > 0
    /\ Truthy(ChoicesOf(p)[1])
    /\ TypeofObject(ChoicesOf(p)[1])

\* the generic content field consulted before output_text
FromAssistantMessage_ContentFirst(p) ==
    LET am == Get(p, "assistant_message")
        amText == extractText(Get(am, "content"))
    IN
    IF Truthy(am) /\ TypeofObject(am) /\ amText # "" THEN Chunk(amText, "replace")
    ELSE IF extractText(Get(p, "content")) # ""
        THEN Chunk(extractText(Get(p, "content")), "append")
    ELSE IF extractText(Get(p, "output_text")) # ""
        THEN Chunk(extractText(Get(p, "output_text")), "replace")
    ELSE IF extractText(Get(p, "text")) # ""
        THEN Chunk(extractText(Get(p, "text")), "append")
    ELSE NoChunk

\* api.ts:208-223, from assistant_message on
FromAssistantMessage(p) ==
    LET am == Get(p, "assistant_message")
        amText == extractText(Get(am, "content"))
    IN
    IF Truthy(am) /\ TypeofObject(am) /\ amText # "" THEN Chunk(amText, "replace")
    ELSE IF extractText(Get(p, "output_text")) # ""
        THEN Chunk(extractText(Get(p, "output_text")), "replace")
    ELSE IF extractText(Get(p, "content")) # ""
        THEN Chunk(extractText(Get(p, "content")), "append")
    ELSE IF extractText(Get(p, "text")) # ""
        THEN Chunk(extractText(Get(p, "text")), "append")
    ELSE NoChunk

\* the role of the message field is not looked at
FromRole_NoMessageRole(p) ==
    LET message == Get(p, "message") IN
    IF IsString(Get(p, "role")) /\ Get(p, "role").v = "user" THEN NoChunk
    ELSE IF Truthy(message) /\ TypeofObject(message)
            /\ extractText(Get(message, "content")) # ""
        THEN Chunk(extractText(Get(message, "content")), "replace")
    ELSE FromAssistantMessage(p)

\* message.content delivered as an increment
FromRole_MessageAppends(p) ==
    LET message == Get(p, "message") IN
    IF IsString(Get(p, "role")) /\ Get(p, "role").v = "user" THEN NoChunk
    ELSE IF Truthy(message) /\ TypeofObject(message) THEN
        IF IsString(Get(message, "role")) /\ Get(message, "role").v = "user"
            THEN NoChunk
        ELSE IF extractText(Get(message, "content")) # ""
            THEN Chunk(extractText(Get(message, "content")), "append")
        ELSE FromAssistantMessage(p)
    ELSE FromAssistantMessage(p)

\* api.ts:197-206, the user-role checks and message.content
FromRole(p) ==
    LET message == Get(p, "message") IN
    IF IsString(Get(p, "role")) /\ Get(p, "role").v = "user" THEN NoChunk
    ELSE IF Truthy(message) /\ TypeofObject(message) THEN
        IF IsString(Get(message, "role")) /\ Get(message, "role").v = "user"
            THEN NoChunk
        ELSE IF extractText(Get(message, "content")) # ""
            THEN Chunk(extractText(Get(message, "content")), "replace")
        ELSE FromAssistantMessage(p)
    ELSE FromAssistantMessage(p)

\* api.ts:184-195, the top-level delta, token and chunk fields
FromDelta(p) ==
    LET delta == Get(p, "delta")
        token == Get(p, "token")
        chunk == Get(p, "chunk")
    IN
    IF IsString(delta) /\ delta.v # "" THEN Chunk(delta.v, "append")
    ELSE IF Truthy(delta) /\ TypeofObject(delta) /\ extractText(delta) # ""
        THEN Chunk(extractText(delta), "append")
    ELSE IF IsString(token) /\ token.v # "" THEN Chunk(token.v, "append")
    ELSE IF IsString(chunk) /\ chunk.v # "" THEN Chunk(chunk.v, "append")
    ELSE FromRole(p)

\* api.ts:171-182, the choices[0] shapes
FromChoices(p) ==
    IF HasFirstChoice(p) THEN
        LET first == ChoicesOf(p)[1]
            delta == Get(first, "delta")
        IN
        IF Truthy(delta) /\ TypeofObject(delta) /\ extractText(delta) # ""
            THEN Chunk(extractText(delta), "append")
        ELSE IF extractText(Get(first, "text")) # ""
            THEN Chunk(extractText(Get(first, "text")), "append")
        ELSE FromDelta(p)
    ELSE FromDelta(p)

\* a string check that forgets the [DONE] sentinel
extractStreamChunk_NoSentinel(data) ==
    IF IsString(data) THEN
        IF trim(data.v) = "" THEN NoChunk
        ELSE Chunk(data.v, "append")
    ELSE IF ~Truthy(data) \/ ~TypeofObject(data) THEN NoChunk
    ELSE FromChoices(data)

extractStreamChunk(data) ==
    IF IsString(data) THEN
        IF trim(data.v) = "" \/ trim(data.v) = "[DONE]" THEN NoChunk
        ELSE Chunk(data.v, "append")
    ELSE IF ~Truthy(data) \/ ~TypeofObject(data) THEN NoChunk
    ELSE FromChoices(data)

-----------------------------------------------------------------------------
(* APIClient.parseSSEData                                                  *)

\* JSON.parse on the texts that occur in the modelled bodies; any other
\* text of the model is not valid JSON and makes JSON.parse throw.
JSONTable ==
    ("1" :> Num(1)) @@
    ("null" :> JNull) @@
    ("\"s\"" :> Str("s")) @@
    ("\" \"" :> Str(" ")) @@
    ("\"[DONE]\"" :> Str("[DONE]")) @@
    ("{}" :> Obj(<<>>)) @@
    ("{\"delta\":\"J\"}" :> Obj([delta |-> Str("J")])) @@
    ("{\"output_text\":\"R\"}" :> Obj([output_text |-> Str("R")])) @@
    ("{\"role\":\"user\",\"text\":\"u\"}" :>
        Obj([role |-> Str("user"), text |-> Str("u")])) @@
    ("{\"message\":{\"content\":\"M\"}}" :>
        Obj([message |-> Obj([content |-> Str("M")])]))

JSONValid(s) == s \in DOMAIN JSONTable
JSONParse(s) == JSONTable[s]

\* a fallback that hands on the trimmed text instead of the data itself
parseSSEData_TrimmedFallback(data) ==
    LET trimmed == trim(data) IN
    IF trimmed = "" \/ trimmed = "[DONE]" THEN JNull
    ELSE IF JSONValid(trimmed) THEN JSONParse(trimmed)
    ELSE Str(trimmed)

parseSSEData(data) ==
    LET trimmed == trim(data) IN
    IF trimmed = "" \/ trimmed = "[DONE]" THEN JNull
    ELSE IF JSONValid(trimmed) THEN JSONParse(trimmed)
    ELSE Str(data)

-----------------------------------------------------------------------------
(* TextDecoder (UTF-8).  Bytes are written as characters; "^" stands for   *)
(* the lead byte and "~" for the continuation byte of a two-byte           *)
(* character, which decodes to "@"; "?" stands for U+FFFD.                 *)

LeadByte == "^"
ContByte == "~"

\* the position of the first lead or continuation byte of bytes, or 0
FirstMultiByte(bytes) ==
    LET S == {i \in 1..Len(bytes) : SubSeq(bytes, i, i) \in {LeadByte, ContByte}}
    IN IF S = {} THEN 0 ELSE CHOOSE i \in S : \A j \in S : i <= j

\* decoder.decode(value, { stream: true }): pending is the lead byte kept
\* from the previous call, or ""; the result is <<text, pending>>
RECURSIVE DecodeStream(_, _)
DecodeStream(pending, bytes) ==
    IF bytes = "" THEN <<"", pending>>
    ELSE IF pending # "" THEN
        IF Head(bytes) = ContByte
        THEN LET r == DecodeStream("", Tail(bytes)) IN <<"@" \o r[1], r[2]>>
        ELSE LET r == DecodeStream("", bytes) IN <<"?" \o r[1], r[2]>>
    ELSE
        LET k == FirstMultiByte(bytes) IN
        IF k = 0 THEN <<bytes, "">>
        ELSE IF SubSeq(bytes, k, k) = LeadByte
        THEN LET r == DecodeStream(LeadByte, SubSeq(bytes, k + 1, Len(bytes)))
             IN <<SubSeq(bytes, 1, k - 1) \o r[1], r[2]>>
        ELSE LET r == DecodeStream("", SubSeq(bytes, k + 1, Len(bytes)))
             IN <<SubSeq(bytes, 1, k - 1) \o "?" \o r[1], r[2]>>

\* decoder.decode(): the end-of-input flush
DecodeFlush(pending) == IF pending # "" THEN "?" ELSE ""

-----------------------------------------------------------------------------
(* APIClient.consumeSSEStream                                              *)

\* s.startsWith(prefix)
StartsWith(s, prefix) ==
    Len(s) >= Len(prefix) /\ SubSeq(s, 1, Len(prefix)) = prefix
\* s.endsWith(suffix)
EndsWith(s, suffix) ==
    Len(s) >= Len(suffix) /\ SubSeq(s, Len(s) - Len(suffix) + 1, Len(s)) = suffix
\* s.slice(n)
SliceFrom(s, n) == SubSeq(s, n + 1, Len(s))

\* s.indexOf("\n"), 1-based; 0 when there is none
IndexOfNL(s) ==
    LET S == {i \in 1..Len(s) : SubSeq(s, i, i) = "\n"}
    IN IF S = {} THEN 0 ELSE CHOOSE i \in S : \A j \in S : i <= j

\* dataLines.join("\n")
RECURSIVE JoinLines(_)
JoinLines(ls) ==
    IF ls = <<>> THEN ""
    ELSE IF Len(ls) = 1 THEN ls[1]
    ELSE ls[1] \o "\n" \o JoinLines(Tail(ls))

\* the locals of consumeSSEStream at its entry
DecLocals == [pending |-> "", buffer |-> "", currentEvent |-> "message",
              dataLines |-> <<>>]
\* the locals together with the frames and chunks produced so far
WithOutput(l, fs, cs) ==
    [pending |-> l.pending, buffer |-> l.buffer, currentEvent |-> l.currentEvent,
     dataLines |-> l.dataLines, frames |-> fs, chunks |-> cs]
LocalsOf(d) ==
    [pending |-> d.pending, buffer |-> d.buffer, currentEvent |-> d.currentEvent,
     dataLines |-> d.dataLines]
DecInit == WithOutput(DecLocals, <<>>, <<>>)

\* a flush that hands every parsed payload to the sink, text or not
flushEvent_AnyChunk(d) ==
    IF d.dataLines = <<>> THEN [d EXCEPT !.currentEvent = "message"]
    ELSE
        LET rawData == JoinLines(d.dataLines)
            parsed == parseSSEData(rawData)
            chunk == extractStreamChunk(parsed)
            d1 == [d EXCEPT !.dataLines = <<>>,
                            !.frames = Append(@, [event |-> d.currentEvent,
                                                  data |-> rawData]),
                            !.currentEvent = "message"]
        IN
        IF IsNullish(parsed) THEN d1
        ELSE [d1 EXCEPT !.chunks = Append(@,
                    [text |-> chunk.text, mode |-> chunk.mode,
                     event |-> d.currentEvent, raw |-> parsed])]

\* a flush that leaves the event name in place after a frame
flushEvent_KeepsEvent(d) ==
    IF d.dataLines = <<>> THEN [d EXCEPT !.currentEvent = "message"]
    ELSE
        LET rawData == JoinLines(d.dataLines)
            parsed == parseSSEData(rawData)
            chunk == extractStreamChunk(parsed)
            d1 == [d EXCEPT !.dataLines = <<>>,
                            !.frames = Append(@, [event |-> d.currentEvent,
                                                  data |-> rawData])]
        IN
        IF IsNullish(parsed) THEN d1
        ELSE IF chunk # NoChunk
            THEN [d1 EXCEPT !.chunks = Append(@,
                    [text |-> chunk.text, mode |-> chunk.mode,
                     event |-> d.currentEvent, raw |-> parsed])]
        ELSE d1

\* a flush that gives up what is left of the buffer at a frame it discards
flushEvent_EndsAtDiscard(d) ==
    IF d.dataLines = <<>> THEN [d EXCEPT !.currentEvent = "message"]
    ELSE
        LET rawData == JoinLines(d.dataLines)
            parsed == parseSSEData(rawData)
            chunk == extractStreamChunk(parsed)
            d1 == [d EXCEPT !.dataLines = <<>>,
                            !.frames = Append(@, [event |-> d.currentEvent,
                                                  data |-> rawData]),
                            !.currentEvent = "message"]
        IN
        IF IsNullish(parsed) \/ chunk = NoChunk THEN [d1 EXCEPT !.buffer = ""]
        ELSE [d1 EXCEPT !.chunks = Append(@,
                    [text |-> chunk.text, mode |-> chunk.mode,
                     event |-> d.currentEvent, raw |-> parsed])]

\* the closure flushEvent; d.frames records each rawData it assembles
flushEvent(d) ==
    IF d.dataLines = <<>> THEN [d EXCEPT !.currentEvent = "message"]
    ELSE
        LET rawData == JoinLines(d.dataLines)
            parsed == parseSSEData(rawData)
            chunk == extractStreamChunk(parsed)
            d1 == [d EXCEPT !.dataLines = <<>>,
                            !.frames = Append(@, [event |-> d.currentEvent,
                                                  data |-> rawData]),
                            !.currentEvent = "message"]
        IN
        IF IsNullish(parsed) THEN d1
        ELSE IF chunk # NoChunk
            THEN [d1 EXCEPT !.chunks = Append(@,
                    [text |-> chunk.text, mode |-> chunk.mode,
                     event |-> d.currentEvent, raw |-> parsed])]
        ELSE d1

\* the handling of one non-empty line: api.ts:290-297 and 309-316
ProcessLine(d, line) ==
    IF StartsWith(line, ":") THEN d
    ELSE IF StartsWith(line, "event:")
        THEN [d EXCEPT !.currentEvent =
                IF trim(SliceFrom(line, 6)) # "" THEN trim(SliceFrom(line, 6))
                ELSE "message"]
    ELSE IF StartsWith(line, "data:")
        THEN [d EXCEPT !.dataLines = Append(@, trimStart(SliceFrom(line, 5)))]
    ELSE d

\* the inner loop, api.ts:276-298: take the complete lines off the buffer
RECURSIVE DrainLines(_)
DrainLines(d) ==
    LET nlIndex == IndexOfNL(d.buffer) IN
    IF nlIndex = 0 THEN d
    ELSE
        LET line0 == SubSeq(d.buffer, 1, nlIndex - 1)
            line == IF EndsWith(line0, "\r")
                    THEN SubSeq(line0, 1, Len(line0) - 1) ELSE line0
            d1 == [d EXCEPT !.buffer = SubSeq(d.buffer, nlIndex + 1, Len(d.buffer))]
        IN
        IF line = "" THEN DrainLines(flushEvent(d1))
        ELSE DrainLines(ProcessLine(d1, line))

\* a read that decodes each piece on its own, without { stream: true }
ReadPiece_NoStream(d, value) ==
    LET r == DecodeStream("", value) IN
    DrainLines([d EXCEPT !.buffer = @ \o r[1] \o DecodeFlush(r[2]),
                         !.pending = ""])

\* one turn of the outer loop with a piece of bytes, api.ts:274-298
ReadPiece(d, value) ==
    LET r == DecodeStream(d.pending, value) IN
    DrainLines([d EXCEPT !.buffer = @ \o r[1], !.pending = r[2]])

\* buffer.split(/\r?\n/)
RECURSIVE SplitLines(_)
SplitLines(s) ==
    LET nl == IndexOfNL(s) IN
    IF nl = 0 THEN <<s>>
    ELSE
        LET before == SubSeq(s, 1, nl - 1)
            line == IF EndsWith(before, "\r")
                    THEN SubSeq(before, 1, Len(before) - 1) ELSE before
        IN <<line>> \o SplitLines(SubSeq(s, nl + 1, Len(s)))

\* for (const line of lines) { ... }, api.ts:304-317
RECURSIVE ProcessLines(_, _)
ProcessLines(d, lines) ==
    IF lines = <<>> THEN d
    ELSE IF Head(lines) = "" THEN ProcessLines(flushEvent(d), Tail(lines))
    ELSE ProcessLines(ProcessLine(d, Head(lines)), Tail(lines))

\* an end of stream without the final flushEvent()
EndOfStream_NoFlush(d) ==
    LET buffer == d.buffer \o DecodeFlush(d.pending)
        d1 == [d EXCEPT !.buffer = buffer, !.pending = ""]
    IN
    IF buffer # "" THEN ProcessLines(d1, SplitLines(buffer))
    ELSE d1

\* after the read loop, api.ts:301-320
EndOfStream(d) ==
    LET buffer == d.buffer \o DecodeFlush(d.pending)
        d1 == [d EXCEPT !.buffer = buffer, !.pending = ""]
    IN
    IF buffer # "" THEN flushEvent(ProcessLines(d1, SplitLines(buffer)))
    ELSE flushEvent(d1)

\* consumeSSEStream on a body that arrives in one piece
ConsumeWhole(bytes) ==
    IF bytes = "" THEN EndOfStream(DecInit)
    ELSE EndOfStream(ReadPiece(DecInit, bytes))

\* a body that is not an event stream, framed as one all the same
SinglePayload_Framed(text) == ConsumeWhole(text).chunks

\* the single-payload path of sendMessageStream, api.ts:450-455
SinglePayload(text) ==
    LET parsed == parseSSEData(text)
        chunk == extractStreamChunk(parsed)
    IN
    IF IsNullish(parsed) THEN <<>>
    ELSE IF chunk # NoChunk
        THEN <<[text |-> chunk.text, mode |-> chunk.mode,
                event |-> "message", raw |-> parsed]>>
    ELSE <<>>

-----------------------------------------------------------------------------
(* authStorage.ts: the token store of the workspace                        *)

\* localStorage.getItem(key) === null
Null == 0

getAuthToken(store) == store.authToken
getRefreshToken(store) == store.refreshToken

\* a store write that is lost
setAuthToken_NotStored(store, token) == store

\* a clear that leaves the user entry behind
clearAuth_KeepsUser(store) ==
    [authToken |-> Null, refreshToken |-> Null, user |-> store.user]

setAuthToken(store, token) == [store EXCEPT !.authToken = token]
clearAuth(store) == [authToken |-> Null, refreshToken |-> Null, user |-> Null]

LoggedIn == [authToken |-> 1, refreshToken |-> 1, user |-> 1]
LoggedOut == [authToken |-> Null, refreshToken |-> Null, user |-> Null]

-----------------------------------------------------------------------------
(* APIClient.sendMessageStream, with the /auth/refresh request it sends    *)
(* through the axios client and the client's response interceptor.         *)

NumCalls == 2
Calls == 1..NumCalls

NoResponse == [status |-> 0, ctype |-> "", hasBody |-> FALSE, body |-> "",
               readable |-> FALSE]
Pending == [state |-> "pending", error |-> ""]
Resolved == [state |-> "resolved", error |-> ""]
Rejected(error) == [state |-> "rejected", error |-> error]
NoRequest == [st |-> "none", retry |-> FALSE]

\* a response to a streaming POST; readable is false when reading its body
\* fails before the end
Answer(status, ctype, hasBody, body, readable) ==
    [status |-> status, ctype |-> ctype, hasBody |-> hasBody, body |-> body,
     readable |-> readable]

\* what the backend may answer to a streaming POST
StreamAnswers == {
    Answer(200, "", FALSE, "", TRUE),
    Answer(200, "application/json", TRUE, "{\"delta\":\"J\"}", TRUE),
    Answer(200, "application/json", TRUE, "{\"delta\":\"J\"}", FALSE),
    Answer(200, "text/event-stream", TRUE, "data: a\n\ndata:[DONE]\n\n", TRUE),
    Answer(200, "text/event-stream", TRUE, "data: a\n\ndata:[DONE]\n\n", FALSE),
    Answer(401, "text/plain", TRUE, "expired", TRUE),
    Answer(500, "text/plain", TRUE, "boom", TRUE),
    Answer(500, "text/plain", TRUE, "boom", FALSE),
    Answer(500, "text/plain", TRUE, "", TRUE) }

\* what the backend may answer to POST /auth/refresh; 500 stands for every
\* failure without a 401 response, a transport error included
RefreshAnswers == {200, 401, 500}

\* response.ok
Ok(r) == r.status >= 200 /\ r.status <= 299

\* the rejection of a fetch() that got no response: network error or abort
TransportError == "TypeError: Failed to fetch"
\* the AxiosError of a failed /auth/refresh request
AxiosError(status) == "Request failed with status code " \o ToString(status)

\* an error message that drops the body text
StreamError_NoDetail(status, detail) ==
    "Stream request failed (" \o ToString(status) \o ")"

\* api.ts:443
StreamError(status, detail) ==
    "Stream request failed (" \o ToString(status) \o ")"
        \o (IF detail # "" THEN ": " \o detail ELSE "")

AuthIdle ==
    /\ localStorage = LoggedOut
    /\ isRefreshing = FALSE
    /\ failedQueue = <<>>
    /\ pc = [c \in Calls |-> "idle"]
    /\ accessToken = [c \in Calls |-> Null]
    /\ response = [c \in Calls |-> NoResponse]
    /\ axios = [c \in Calls |-> NoRequest]
    /\ posts = [c \in Calls |-> <<>>]
    /\ answers = [c \in Calls |-> <<>>]
    /\ refreshPosts = [c \in Calls |-> 0]
    /\ delivered = [c \in Calls |-> <<>>]
    /\ outcome = [c \in Calls |-> Pending]
    /\ location = "/"
    /\ nextToken = 2

\* the query cache while the chat page is not considered: no entry
PageIdle == cache = Undefined

-----------------------------------------------------------------------------
(* The extractor applied to a bounded domain of object payloads: every     *)
(* combination of the ten shape fields, each absent or holding one of a    *)
(* few values (empty, text-bearing, wrongly typed).                        *)

ChoicesVals == <<
    Undefined,
    Arr(<<>>),
    Arr(<<Obj([delta |-> Obj([content |-> Str("A")])])>>),
    Arr(<<Obj([delta |-> Obj([role |-> Str("assistant")]), text |-> Str("B")])>>),
    Arr(<<Obj([text |-> Str("B")])>>),
    Arr(<<Str("s")>>),
    Arr(<<Obj([delta |-> Obj([role |-> Str("assistant")])])>>) >>
DeltaVals == <<
    Undefined,
    Str(""),
    Str("C"),
    Obj([text |-> Str("D")]) >>
TokenVals == << Undefined, Str(""), Str("E") >>
ChunkVals == << Undefined, Str("F") >>
RoleVals == << Undefined, Str("user"), Str("assistant") >>
MessageVals == <<
    Undefined,
    Obj([role |-> Str("user"), content |-> Str("G")]),
    Obj([role |-> Str("assistant"), content |-> Str("G")]),
    Obj([content |-> Arr(<<Obj([text |-> Str("G")]), Str("g")>>)]) >>
AssistantMessageVals == << Undefined, Obj([content |-> Str("H")]) >>
OutputTextVals == << Undefined, Str(""), Str("I") >>
ContentVals == <<
    Undefined,
    Str("J"),
    Arr(<<Obj([type |-> Str("text"), text |-> Str("J")]),
          Obj([content |-> Str("j")]), Num(1)>>) >>
TextVals == << Undefined, Str("K") >>

\* the stream variables while no response body is being consumed
StreamIdle ==
    /\ whole = "" /\ wire = "" /\ isSSE = FALSE
    /\ dec = DecLocals /\ frames = <<>> /\ chunks = <<>>
    /\ signal = "none" /\ lateChunks = 0 /\ reader = "none"

FieldNames == {"choices", "delta", "token", "chunk", "role", "message",
               "assistant_message", "output_text", "content", "text"}

\* the object that has exactly the fields of f that are not undefined
MkPayload(f) ==
    Obj([k \in {n \in FieldNames : f[n].t # "undefined"} |-> f[k]])

\* the payloads that are bare strings (a frame that is not valid JSON, or a
\* JSON string literal)
StringPayloads == {Str(""), Str(" "), Str("[DONE]"), Str(" [DONE] "),
                   Str("plain"), Str(" padded ")}

InitExtract ==
    /\ phase = "extract"
    /\ \/ payload \in StringPayloads
       \/ \E c \in 1..Len(ChoicesVals), d \in 1..Len(DeltaVals),
          t \in 1..Len(TokenVals), k \in 1..Len(ChunkVals),
          r \in 1..Len(RoleVals), m \in 1..Len(MessageVals),
          a \in 1..Len(AssistantMessageVals), o \in 1..Len(OutputTextVals),
          n \in 1..Len(ContentVals), x \in 1..Len(TextVals) :
            payload = MkPayload(
                [choices |-> ChoicesVals[c], delta |-> DeltaVals[d],
                 token |-> TokenVals[t], chunk |-> ChunkVals[k],
                 role |-> RoleVals[r], message |-> MessageVals[m],
                 assistant_message |-> AssistantMessageVals[a],
                 output_text |-> OutputTextVals[o],
                 content |-> ContentVals[n], text |-> TextVals[x]])
    /\ result = NoChunk
    /\ StreamIdle
    /\ AuthIdle
    /\ PageIdle

\* one call of extractStreamChunk(payload, eventName)
Extract ==
    /\ phase = "extract"
    /\ result' = extractStreamChunk(payload)
    /\ phase' = "extracted"
    /\ UNCHANGED <<payload, streamVars, authVars, pageVars>>

NextExtract == Extract

SpecExtract == InitExtract /\ [][NextExtract]_vars

-----------------------------------------------------------------------------
(* The recognized shapes of a payload, numbered in the priority order       *)
(* choices[0].delta, choices[0].text, delta, token, chunk, message.content,*)
(* assistant_message.content, output_text, content, text.                  *)

Shapes == 1..10

IsObjectValue(x) == Truthy(x) /\ TypeofObject(x)

\* the text shape i yields on payload p ("" when p does not match shape i)
ShapeText(p, i) ==
    CASE i = 1 -> IF HasFirstChoice(p) /\ IsObjectValue(Get(ChoicesOf(p)[1], "delta"))
                  THEN extractText(Get(ChoicesOf(p)[1], "delta")) ELSE ""
      [] i = 2 -> IF HasFirstChoice(p)
                  THEN extractText(Get(ChoicesOf(p)[1], "text")) ELSE ""
      [] i = 3 -> IF IsString(Get(p, "delta")) THEN Get(p, "delta").v
                  ELSE IF IsObjectValue(Get(p, "delta"))
                  THEN extractText(Get(p, "delta")) ELSE ""
      [] i = 4 -> IF IsString(Get(p, "token")) THEN Get(p, "token").v ELSE ""
      [] i = 5 -> IF IsString(Get(p, "chunk")) THEN Get(p, "chunk").v ELSE ""
      [] i = 6 -> IF IsObjectValue(Get(p, "message"))
                  THEN extractText(Get(Get(p, "message"), "content")) ELSE ""
      [] i = 7 -> IF IsObjectValue(Get(p, "assistant_message"))
                  THEN extractText(Get(Get(p, "assistant_message"), "content")) ELSE ""
      [] i = 8 -> extractText(Get(p, "output_text"))
      [] i = 9 -> extractText(Get(p, "content"))
      [] i = 10 -> extractText(Get(p, "text"))

ShapeMode(i) == IF i \in {6, 7, 8} THEN "replace" ELSE "append"

\* the shapes that yield non-empty text on p, and the earliest of them
Yielding(p) == {i \in Shapes : ShapeText(p, i) # ""}
Earliest(p) == CHOOSE i \in Yielding(p) : \A j \in Yielding(p) : i <= j

\* the payload represents a user-role message
TopRoleUser(p) == IsString(Get(p, "role")) /\ Get(p, "role").v = "user"
MessageRoleUser(p) ==
    /\ IsObjectValue(Get(p, "message"))
    /\ IsString(Get(Get(p, "message"), "role"))
    /\ Get(Get(p, "message"), "role").v = "user"
IsUserEcho(p) == TopRoleUser(p) \/ MessageRoleUser(p)

Extracted == phase = "extracted"

\* C9 as stated: a payload matching several text-yielding shapes always
\* yields the text and mode of the earliest one.
C9_AsStated ==
    (Extracted /\ Cardinality(Yielding(payload)) >= 2)
        => result = Chunk(ShapeText(payload, Earliest(payload)),
                          ShapeMode(Earliest(payload)))

\* C9 (amended): for every object payload matching several shapes that each
\* yield non-empty text, extractStreamChunk returns the text and mode of the
\* earliest shape in the priority order, except that a user echo whose
\* earliest shape is message.content or later yields no chunk; a payload with
\* a non-empty choices[0].delta text and a top-level content yields the
\* choices[0].delta text with mode append.
C9_ShapePriority ==
    (Extracted /\ Cardinality(Yielding(payload)) >= 2)
        => /\ (IsUserEcho(payload) /\ Earliest(payload) >= 6) => result = NoChunk
           /\ ~(IsUserEcho(payload) /\ Earliest(payload) >= 6)
                => result = Chunk(ShapeText(payload, Earliest(payload)),
                                  ShapeMode(Earliest(payload)))
           /\ (ShapeText(payload, 1) # "" /\ ShapeText(payload, 9) # "")
                => result = Chunk(ShapeText(payload, 1), "append")

\* a payload whose top-level role is "user", with both a choices[0].delta
\* text and a top-level content, gave the choices[0].delta text
C9_Witness ==
    /\ Extracted
    /\ ShapeText(payload, 1) # ""
    /\ ShapeText(payload, 9) # ""
    /\ TopRoleUser(payload)
    /\ result = Chunk("A", "append")

\* C10 as stated: a user-role payload never yields a chunk.
C10_AsStated ==
    (Extracted /\ IsUserEcho(payload)) => result = NoChunk

\* C10 (amended): a payload whose top-level role is "user", or whose message
\* field is an object with role "user", yields no chunk whatever its
\* message, assistant_message, output_text, content and text fields contain,
\* provided none of the higher-priority shapes choices[0].delta,
\* choices[0].text, delta, token, chunk yields non-empty text; if one of
\* those does, its text is returned.
C10_UserEcho ==
    (Extracted /\ IsUserEcho(payload))
        => (result = NoChunk <=> Yielding(payload) \cap 1..5 = {})

\* a user echo carrying content, text, output_text and assistant_message
\* text was discarded
C10_Witness ==
    /\ Extracted
    /\ IsUserEcho(payload)
    /\ {7, 8, 9, 10} \subseteq Yielding(payload)
    /\ Yielding(payload) \cap 1..5 = {}
    /\ result = NoChunk

\* C11: a chunk has mode "replace" exactly when its text was taken from
\* message.content, assistant_message.content or output_text; text taken from
\* choices[0], delta, token, chunk, content or text, and a bare string,
\* always has mode "append".
C11_AppendVsReplace ==
    (Extracted /\ result # NoChunk) =>
        IF IsString(payload) THEN result = Chunk(payload.v, "append")
        ELSE /\ Yielding(payload) # {}
             /\ result.text = ShapeText(payload, Earliest(payload))
             /\ result.mode = "replace" <=> Earliest(payload) \in {6, 7, 8}
             /\ result.mode = "append" <=> Earliest(payload) \in {1, 2, 3, 4, 5, 9, 10}

\* the text of message.content was preferred to a top-level content and
\* delivered as a replacement
C11_Witness ==
    /\ Extracted
    /\ Yielding(payload) # {}
    /\ Earliest(payload) = 6
    /\ 9 \in Yielding(payload)
    /\ result = Chunk("G", "replace")

-----------------------------------------------------------------------------
(* The response body of a successful streaming request, consumed either    *)
(* by consumeSSEStream (in pieces of any size) or as a single payload.     *)

MaxLines == 3

\* the lines a body is made of
LineVals == <<
    "",
    "data: a",
    "data:  b",
    "data:[DONE]",
    "data:{\"output_text\":\"R\"}",
    "data:{}",
    "data:^~",
    "event: x",
    ":k" >>

\* how the lines of a body end, and how its last line ends: the last line
\* may be cut short, before its line end or inside it
LineEnds == <<"\n", "\r\n">>
LastLineCuts == <<"", "\r">>

RECURSIVE BodyOf(_, _, _)
BodyOf(ls, end, lastEnd) ==
    IF ls = <<>> THEN ""
    ELSE IF Len(ls) = 1 THEN LineVals[ls[1]] \o lastEnd
    ELSE LineVals[ls[1]] \o end \o BodyOf(Tail(ls), end, lastEnd)

Bodies(n) ==
    IF n = 0 THEN {""}
    ELSE UNION { { BodyOf(ls, LineEnds[e], last) :
                     ls \in [1..n -> 1..Len(LineVals)],
                     last \in {LineEnds[e], LastLineCuts[1], LastLineCuts[2]} } :
                 e \in 1..Len(LineEnds) }

\* the bodies of responses that are not event streams
PayloadTexts == {
    "", " ", "[DONE]", "plain text", " padded ", "1", "null", "{}",
    "\"s\"", "\" \"", "\"[DONE]\"",
    "{\"delta\":\"J\"}",
    "{\"role\":\"user\",\"text\":\"u\"}",
    "{\"message\":{\"content\":\"M\"}}",
    "data: a\n\n", "^~" }

ExtractIdle == payload = Undefined /\ result = NoChunk

InitStream ==
    /\ phase = "stream"
    /\ \/ isSSE = TRUE /\ \E n \in 0..MaxLines : whole \in Bodies(n)
       \/ isSSE = FALSE /\ whole \in PayloadTexts
    /\ wire = whole
    /\ dec = DecLocals /\ frames = <<>> /\ chunks = <<>>
    /\ signal = "none" /\ lateChunks = 0
    /\ reader = IF isSSE THEN "locked" ELSE "none"
    /\ ExtractIdle
    /\ AuthIdle
    /\ PageIdle

\* reader.read() resolves with the next piece, of any size, and the inner
\* loop handles the lines it completes
Read ==
    /\ phase = "stream" /\ isSSE /\ wire # ""
    /\ \E n \in 1..Len(wire) :
        LET d == ReadPiece(WithOutput(dec, frames, chunks), SubSeq(wire, 1, n)) IN
        /\ wire' = SubSeq(wire, n + 1, Len(wire))
        /\ dec' = LocalsOf(d)
        /\ frames' = d.frames
        /\ chunks' = d.chunks
    /\ UNCHANGED <<phase, whole, isSSE, signal, lateChunks, reader, extractVars, pageVars,
                   authVars>>

\* reader.read() resolves with done: the trailing flush
ReadDone ==
    /\ phase = "stream" /\ isSSE /\ wire = ""
    /\ LET d == EndOfStream(WithOutput(dec, frames, chunks)) IN
        /\ dec' = LocalsOf(d)
        /\ frames' = d.frames
        /\ chunks' = d.chunks
    /\ phase' = "consumed"
    /\ reader' = "closed"
    /\ UNCHANGED <<whole, wire, isSSE, signal, lateChunks, extractVars, pageVars, authVars>>

\* the body of a response that is not an event stream: response.text()
\* decodes it whole, and it is parsed once
ReadText ==
    /\ phase = "stream" /\ ~isSSE
    /\ LET r == DecodeStream("", whole) IN
        chunks' = SinglePayload(r[1] \o DecodeFlush(r[2]))
    /\ wire' = ""
    /\ phase' = "consumed"
    /\ UNCHANGED <<whole, isSSE, dec, frames, signal, lateChunks, reader,
                   extractVars, pageVars, authVars>>

NextStream == Read \/ ReadDone \/ ReadText

SpecStream == InitStream /\ [][NextStream]_vars

Consumed == phase = "consumed"

\* the chunk body the extractor yields for the text of a frame or a body
TextChunk(data) ==
    IF IsNullish(parseSSEData(data)) THEN NoChunk
    ELSE extractStreamChunk(parseSSEData(data))

\* the frames of fs from which non-empty text can be extracted
RECURSIVE WithText(_)
WithText(fs) ==
    IF fs = <<>> THEN <<>>
    ELSE IF TextChunk(Head(fs).data).text # "" THEN <<Head(fs)>> \o WithText(Tail(fs))
    ELSE WithText(Tail(fs))

\* C6: every chunk passed to onChunk, on the event-stream path and on the
\* single-payload path, has a non-empty text and mode "append" or "replace",
\* and there is exactly one chunk per frame (or body) that yields non-empty
\* text: a frame without extractable text produces no onChunk invocation.
C6_ChunksHaveText ==
    /\ \A i \in 1..Len(chunks) :
        /\ chunks[i].text # ""
        /\ chunks[i].mode \in {"append", "replace"}
    /\ isSSE => Len(chunks) = Len(WithText(frames))
    /\ (~isSSE /\ Consumed) =>
        Len(chunks) = IF TextChunk(DecodeStream("", whole)[1]
                                   \o DecodeFlush(DecodeStream("", whole)[2])).text # ""
                      THEN 1 ELSE 0

\* an event stream dropped a frame without text and delivered a replace chunk
C6_Witness ==
    /\ Consumed /\ isSSE
    /\ Len(frames) = 2
    /\ Len(chunks) = 1
    /\ chunks[1].mode = "replace"

\* the text response.text() gives for the whole body
WholeText == DecodeStream("", whole)[1] \o DecodeFlush(DecodeStream("", whole)[2])

\* the payload string of a frame or body: the content of a JSON string
\* literal, or the text itself
PayloadString(data) ==
    IF JSONValid(trim(data)) /\ IsString(JSONParse(trim(data)))
    THEN JSONParse(trim(data)).v ELSE data

IsSentinel(data) == trim(PayloadString(data)) \in {"", "[DONE]"}

RECURSIVE WithoutSentinels(_)
WithoutSentinels(fs) ==
    IF fs = <<>> THEN <<>>
    ELSE IF IsSentinel(Head(fs).data) THEN WithoutSentinels(Tail(fs))
    ELSE <<Head(fs)>> \o WithoutSentinels(Tail(fs))

\* the chunks of the frames fs, in order: the extractor's text and mode
\* with the frame's event and parsed payload
RECURSIVE ChunksOf(_)
ChunksOf(fs) ==
    IF fs = <<>> THEN <<>>
    ELSE IF TextChunk(Head(fs).data) = NoChunk THEN ChunksOf(Tail(fs))
    ELSE <<[text |-> TextChunk(Head(fs).data).text,
            mode |-> TextChunk(Head(fs).data).mode,
            event |-> Head(fs).event,
            raw |-> parseSSEData(Head(fs).data)]>> \o ChunksOf(Tail(fs))

\* C12: a frame data or non-streamed body whose payload string, trimmed, is
\* [DONE] or empty, as plain text or as a JSON string literal, produces no
\* chunk and no error: the chunks are those of the other frames, and no
\* chunk carries a sentinel payload.
C12_SentinelDiscard ==
    /\ \A i \in 1..Len(chunks) :
            IsString(chunks[i].raw) => trim(chunks[i].raw.v) \notin {"", "[DONE]"}
    /\ isSSE => chunks = ChunksOf(WithoutSentinels(frames))
    /\ (~isSSE /\ Consumed /\ IsSentinel(WholeText)) => chunks = <<>>

\* a body that is the JSON string literal "[DONE]" was read and discarded
C12_Witness ==
    /\ Consumed /\ ~isSSE
    /\ whole = "\"[DONE]\""
    /\ chunks = <<>>

\* the bytes the reader has delivered so far
Delivered == SubSeq(whole, 1, Len(whole) - Len(wire))

\* C7: however the bytes are cut into pieces, consumeSSEStream is in the
\* state, and has delivered the chunks (text, mode, event, raw) and frames,
\* that delivering the same bytes in one piece produces; at the end of the
\* stream the chunks are those of the whole stream arriving in one piece.
C7_SplitInvariance ==
    /\ (phase = "stream" /\ isSSE /\ Delivered # "") =>
        LET one == ReadPiece(DecInit, Delivered) IN
        /\ chunks = one.chunks
        /\ frames = one.frames
        /\ dec = LocalsOf(one)
    /\ (Consumed /\ isSSE) =>
        /\ chunks = ConsumeWhole(whole).chunks
        /\ frames = ConsumeWhole(whole).frames

\* a cut between "\r" and "\n" after a chunk was delivered
C7_Witness ==
    /\ phase = "stream" /\ isSSE
    /\ chunks # <<>>
    /\ EndsWith(dec.buffer, "\r")
    /\ wire # "" /\ Head(wire) = "\n"

\* a cut inside a two-byte character, after a frame
C7_WitnessMultiByte ==
    /\ phase = "stream" /\ isSSE
    /\ dec.pending = LeadByte
    /\ dec.buffer = "data:"
    /\ Len(frames) = 1

\* the data lines pending when the stream ends: those of the open event
\* block and the value of a last `data:` line that no newline terminates
PendingAtEnd ==
    LET last == dec.buffer \o DecodeFlush(dec.pending) IN
    IF StartsWith(last, "data:")
    THEN Append(dec.dataLines, trimStart(SliceFrom(last, 5)))
    ELSE dec.dataLines

\* C8: when the stream ends with data lines pending, exactly one final frame
\* is produced, from those data lines joined by "\n", and one chunk is
\* delivered for it if it has extractable text; when nothing is pending,
\* the end of the stream emits nothing.
C8_TrailingFlush ==
    [][(phase = "stream" /\ isSSE /\ phase' = "consumed") =>
        IF PendingAtEnd # <<>>
        THEN /\ Len(frames') = Len(frames) + 1
             /\ SubSeq(frames', 1, Len(frames)) = frames
             /\ frames'[Len(frames')].data = JoinLines(PendingAtEnd)
             /\ SubSeq(chunks', 1, Len(chunks)) = chunks
             /\ Len(chunks') = Len(chunks) +
                    IF TextChunk(JoinLines(PendingAtEnd)).text # "" THEN 1 ELSE 0
        ELSE frames' = frames /\ chunks' = chunks]_vars

\* a stream that ends inside an unterminated `data:` line of an open event
\* block was flushed into one frame and one chunk
C8_Witness ==
    /\ Consumed /\ isSSE
    /\ whole = "data: a\ndata:  b"
    /\ frames = <<[event |-> "message", data |-> "a\nb"]>>
    /\ Len(chunks) = 1 /\ chunks[1].text = "a\nb"


\* the shapes of the priority list, by their number in it (2: choices,
\* 3: delta, 4: token, 5: chunk, 6: role, 7: message, 8: assistant_message,
\* 9: output_text, 10: content, 11: text), and the payloads that have the
\* fields of each
ListedShapes == 2..11

Has(p, f) == Get(p, f) # Undefined

MatchesShape(p, k) ==
    CASE k = 2 -> HasFirstChoice(p)
      [] k = 3 -> Has(p, "delta")
      [] k = 4 -> IsString(Get(p, "token")) /\ Get(p, "token").v # ""
      [] k = 5 -> IsString(Get(p, "chunk")) /\ Get(p, "chunk").v # ""
      [] k = 6 -> TopRoleUser(p)
      [] k = 7 -> IsObjectValue(Get(p, "message"))
      [] k = 8 -> IsObjectValue(Get(p, "assistant_message"))
      [] k = 9 -> Has(p, "output_text")
      [] k = 10 -> Has(p, "content")
      [] k = 11 -> Has(p, "text")

ChunkOrNone(t, mode) == IF t = "" THEN NoChunk ELSE Chunk(t, mode)

\* the outcome of the listed shape k taken alone
OutcomeOfShape(p, k) ==
    CASE k = 2 -> IF ShapeText(p, 1) # "" THEN Chunk(ShapeText(p, 1), "append")
                  ELSE ChunkOrNone(ShapeText(p, 2), "append")
      [] k = 3 -> ChunkOrNone(ShapeText(p, 3), "append")
      [] k = 4 -> ChunkOrNone(ShapeText(p, 4), "append")
      [] k = 5 -> ChunkOrNone(ShapeText(p, 5), "append")
      [] k = 6 -> NoChunk
      [] k = 7 -> IF MessageRoleUser(p) THEN NoChunk
                  ELSE ChunkOrNone(ShapeText(p, 6), "replace")
      [] k = 8 -> ChunkOrNone(ShapeText(p, 7), "replace")
      [] k = 9 -> ChunkOrNone(ShapeText(p, 8), "replace")
      [] k = 10 -> ChunkOrNone(ShapeText(p, 9), "append")
      [] k = 11 -> ChunkOrNone(ShapeText(p, 10), "append")

Matched(p) == {k \in ListedShapes : MatchesShape(p, k)}

\* the listed shapes that end the recognition: one that gives a chunk, or a
\* user role
Deciding(p) ==
    {k \in Matched(p) : \/ OutcomeOfShape(p, k) # NoChunk
                        \/ k = 6
                        \/ k = 7 /\ MessageRoleUser(p)}

Lowest(S) == CHOOSE k \in S : \A j \in S : k <= j

\* C22: shape recognition is first-match-wins: once a payload has the
\* fields of a shape of the priority list, the outcome is decided by that
\* shape alone, a chunk if its text is non-empty and no chunk otherwise, and
\* no lower-priority shape is consulted.
C22_FirstMatchWins ==
    (Extracted /\ ~IsString(payload) /\ Matched(payload) # {})
        => result = OutcomeOfShape(payload, Lowest(Matched(payload)))

\* what the extractor does: a matching shape whose text is empty is passed
\* over, and the first shape that gives a chunk or a user role decides
C22_FirstYieldWins ==
    (Extracted /\ ~IsString(payload)) =>
        result = IF Deciding(payload) = {} THEN NoChunk
                 ELSE OutcomeOfShape(payload, Lowest(Deciding(payload)))

\* the payload {choices: [{delta: {role: "assistant"}}], content: "J"}: the
\* choices shape gives no text
C22_EnvelopeContent ==
    (Extracted /\ payload = Obj([choices |-> ChoicesVals[7], content |-> Str("J")]))
        => result = NoChunk

-----------------------------------------------------------------------------
(* extractText on its own: the values it is applied to are scalars, arrays  *)
(* of up to MaxItems elements, and objects with text and content fields.    *)
(* The result is kept in result.text, with the mode "text".                 *)

MaxItems == 2

Bool(b) == [t |-> "boolean", v |-> b]

TextItems == {
    Str(""), Str("a"), Num(1), Num(0), JNull, Bool(TRUE),
    Arr(<<Str("n")>>),
    Obj([text |-> Str("t")]),
    Obj([content |-> Str("c")]),
    Obj([text |-> Str("t"), content |-> Str("c")]),
    Obj([text |-> Num(1), content |-> Str("c")]),
    Obj([content |-> Arr(<<Str("n")>>)]),
    Obj([type |-> Str("x")]) }

TextArrays == UNION { { Arr(a) : a \in [1..k -> TextItems] } : k \in 0..MaxItems }

\* the object with the fields text and content, where they are not undefined
TextObject(t, c) ==
    LET f == [text |-> t, content |-> c] IN
    Obj([k \in {n \in {"text", "content"} : f[n].t # "undefined"} |-> f[k]])

TextObjects ==
    { TextObject(t, c) :
        t \in {Undefined, Str("t"), Num(1)},
        c \in {Undefined, Str("c"), Num(1), JNull, Obj([text |-> Str("t")])}
                \cup TextArrays }

TextValues ==
    {Undefined, JNull, Str(""), Str("a"), Num(1), Bool(FALSE)}
        \cup TextArrays \cup TextObjects

InitText ==
    /\ phase = "text"
    /\ payload \in TextValues
    /\ result = NoChunk
    /\ StreamIdle
    /\ AuthIdle
    /\ PageIdle

\* one call of extractText(payload)
ExtractTextOf ==
    /\ phase = "text"
    /\ result' = [text |-> extractText(payload), mode |-> "text"]
    /\ phase' = "texted"
    /\ UNCHANGED <<payload, streamVars, authVars, pageVars>>

NextText == ExtractTextOf

SpecText == InitText /\ [][NextText]_vars

\* the reference definition of the text of a value
RefItemText(e) ==
    CASE e.t = "string" -> e.v
      [] e.t = "object" ->
            IF "text" \in DOMAIN e.v /\ e.v["text"].t = "string" THEN e.v["text"].v
            ELSE IF "content" \in DOMAIN e.v /\ e.v["content"].t = "string"
                THEN e.v["content"].v
            ELSE ""
      [] OTHER -> ""

RECURSIVE RefArrayText(_)
RefArrayText(a) ==
    IF a = <<>> THEN "" ELSE RefItemText(Head(a)) \o RefArrayText(Tail(a))

RefText(x) ==
    CASE x.t = "string" -> x.v
      [] x.t \in {"null", "undefined"} -> ""
      [] x.t = "array" -> RefArrayText(x.v)
      [] x.t = "object" ->
            IF "text" \in DOMAIN x.v /\ x.v["text"].t = "string" THEN x.v["text"].v
            ELSE IF "content" \in DOMAIN x.v /\ x.v["content"].t = "string"
                THEN x.v["content"].v
            ELSE IF "content" \in DOMAIN x.v /\ x.v["content"].t = "array"
                THEN RefArrayText(x.v["content"].v)
            ELSE ""
      [] OTHER -> ""

\* C23: extractText agrees with the reference definition on every value:
\* a string gives itself, null and undefined "", an array the concatenation
\* of its elements' contributions without going into their content arrays,
\* an object its text, else its content, else the array rule on its content,
\* and any other value "".
C23_ExtractTextIsReference ==
    phase = "texted" => result = [text |-> RefText(payload), mode |-> "text"]

\* an array whose first element has a content array, which contributes ""
C23_Witness ==
    /\ phase = "texted"
    /\ payload = Arr(<<Obj([content |-> Arr(<<Str("n")>>)]), Str("a")>>)
    /\ result.text = "a"

-----------------------------------------------------------------------------
(* The reference pipeline of the event-stream grammar: the whole text is    *)
(* split into lines, the lines are grouped into event blocks at blank       *)
(* lines, and each block with a data line gives one frame.  sem says how a  *)
(* data value is taken from its line (oneSpace: one leading space removed;  *)
(* otherwise all leading white space), whether the last, unterminated line  *)
(* has its trailing "\r" removed like the others (stripLastCR), and whether *)
(* a blank line with no data pending keeps the event name (keepEvent).      *)

Grammar == [oneSpace |-> TRUE, stripLastCR |-> TRUE, keepEvent |-> TRUE]
AsDecoded == [oneSpace |-> FALSE, stripLastCR |-> FALSE, keepEvent |-> FALSE]

RECURSIVE RefLines(_)
RefLines(text) ==
    LET nl == IndexOfNL(text) IN
    IF nl = 0 THEN <<text>>
    ELSE <<SubSeq(text, 1, nl - 1)>> \o RefLines(SubSeq(text, nl + 1, Len(text)))

StripCR(line) ==
    IF EndsWith(line, "\r") THEN SubSeq(line, 1, Len(line) - 1) ELSE line

RefEventName(line) ==
    IF trim(SliceFrom(line, 6)) = "" THEN "message" ELSE trim(SliceFrom(line, 6))

RefDataValue(line, sem) ==
    LET v == SliceFrom(line, 5) IN
    IF sem.oneSpace THEN (IF StartsWith(v, " ") THEN SliceFrom(v, 1) ELSE v)
    ELSE trimStart(v)

RECURSIVE RefFrames(_, _, _, _)
RefFrames(lines, event, pending, sem) ==
    LET flush == IF pending = <<>> THEN <<>>
                 ELSE <<[event |-> event, data |-> JoinLines(pending)]>>
    IN
    IF lines = <<>> THEN flush
    ELSE
        LET line == IF sem.stripLastCR \/ Len(lines) > 1
                    THEN StripCR(Head(lines)) ELSE Head(lines)
            rest == Tail(lines)
        IN
        IF line = ""
            THEN flush \o RefFrames(rest,
                            IF pending = <<>> /\ sem.keepEvent THEN event ELSE "message",
                            <<>>, sem)
        ELSE IF StartsWith(line, ":") THEN RefFrames(rest, event, pending, sem)
        ELSE IF StartsWith(line, "event:")
            THEN RefFrames(rest, RefEventName(line), pending, sem)
        ELSE IF StartsWith(line, "data:")
            THEN RefFrames(rest, event, Append(pending, RefDataValue(line, sem)), sem)
        ELSE RefFrames(rest, event, pending, sem)

\* the frames of the text under the semantics sem
FramesOf(text, sem) == RefFrames(RefLines(text), "message", <<>>, sem)

\* the text, mode and raw of each chunk of cs
RECURSIVE Bodies3(_)
Bodies3(cs) ==
    IF cs = <<>> THEN <<>>
    ELSE <<[text |-> Head(cs).text, mode |-> Head(cs).mode, raw |-> Head(cs).raw]>>
            \o Bodies3(Tail(cs))

RECURSIVE EventsOf(_)
EventsOf(fs) ==
    IF fs = <<>> THEN <<>> ELSE <<Head(fs).event>> \o EventsOf(Tail(fs))

RECURSIVE DataOf(_)
DataOf(fs) ==
    IF fs = <<>> THEN <<>> ELSE <<Head(fs).data>> \o DataOf(Tail(fs))

\* C14: when the response is successful and not an event stream, the whole
\* body is parsed once as a single payload, without SSE framing; onChunk is
\* invoked once, with event "message", if the payload yields a chunk, and
\* not at all otherwise; then the call resolves.
C14_SinglePayload ==
    ~isSSE =>
        /\ frames = <<>>
        /\ phase = "stream" => chunks = <<>>
        /\ Consumed =>
            chunks = IF TextChunk(WholeText) = NoChunk THEN <<>>
                     ELSE <<[text |-> TextChunk(WholeText).text,
                             mode |-> TextChunk(WholeText).mode,
                             event |-> "message",
                             raw |-> parseSSEData(WholeText)]>>

\* a body that looks like an event stream was delivered as one plain chunk
C14_Witness ==
    /\ Consumed /\ ~isSSE
    /\ whole = "data: a\n\n"
    /\ chunks = <<[text |-> "data: a\n\n", mode |-> "append",
                   event |-> "message", raw |-> Str("data: a\n\n")]>>

\* C15: the onChunk invocations of a call are, in order and without
\* duplication, loss or reordering, the result of the reference pipeline:
\* the lines of the received text, grouped into blocks at blank lines, one
\* frame per block with a data line (its data values joined by "\n"), the
\* extractor applied to each frame in wire order, the empty results dropped.
C15_OrderedDelivery ==
    (Consumed /\ isSSE) =>
        Bodies3(chunks) = Bodies3(ChunksOf(FramesOf(WholeText, Grammar)))

\* the same with the data values and the last line taken the way the decoder
\* takes them: order, loss and duplication are as in the reference pipeline
C15_OrderAsDecoded ==
    (Consumed /\ isSSE) =>
        Bodies3(chunks) = Bodies3(ChunksOf(FramesOf(WholeText, AsDecoded)))

\* a frame data that JSON.parse rejects and that is no sentinel
Malformed(data) ==
    ~JSONValid(trim(data)) /\ trim(data) \notin {"", "[DONE]"}

\* the chunks of the frames fs, a malformed frame giving its data as it is
RECURSIVE ChunksWithFallback(_)
ChunksWithFallback(fs) ==
    IF fs = <<>> THEN <<>>
    ELSE (IF Malformed(Head(fs).data)
          THEN <<[text |-> Head(fs).data, mode |-> "append",
                  event |-> Head(fs).event, raw |-> Str(Head(fs).data)]>>
          ELSE ChunksOf(<<Head(fs)>>)) \o ChunksWithFallback(Tail(fs))

\* C16: a frame whose data is not valid JSON, and is neither blank nor
\* [DONE], is not an error: it yields exactly one chunk, with mode append,
\* whose text and raw are the frame's data string itself.
C16_MalformedIsText ==
    isSSE => chunks = ChunksWithFallback(frames)

\* a last line "data: a\r" gave the frame data "a\r", delivered untrimmed
C16_Witness ==
    /\ Consumed /\ isSSE
    /\ frames = <<[event |-> "message", data |-> "a\r"]>>
    /\ chunks = <<[text |-> "a\r", mode |-> "append",
                   event |-> "message", raw |-> Str("a\r")]>>

\* the data value rule of the grammar, the rest as the decoder does it
OneSpaceRule == [oneSpace |-> TRUE, stripLastCR |-> FALSE, keepEvent |-> FALSE]

\* C18: the data line appended for a line data:<value> is <value> with at
\* most one leading space removed; a value that starts with two or more
\* spaces keeps all but the first.
C18_OneLeadingSpace ==
    (Consumed /\ isSSE) => DataOf(frames) = DataOf(FramesOf(WholeText, OneSpaceRule))

\* what the decoder does: all the leading white space of the value is removed
C18_AllLeadingSpace ==
    (Consumed /\ isSSE) => DataOf(frames) = DataOf(FramesOf(WholeText, AsDecoded))

\* the line rule of the grammar, the rest as the decoder does it
StripEveryCR == [oneSpace |-> FALSE, stripLastCR |-> TRUE, keepEvent |-> FALSE]

\* C21: every line has a single trailing "\r" stripped before it is
\* interpreted, the lines ended by "\n" and the last, unterminated line
\* processed at the end of the stream alike, so that no data value ends
\* with the "\r" of its line ending.
C21_EveryLineStripped ==
    (Consumed /\ isSSE) =>
        /\ DataOf(frames) = DataOf(FramesOf(WholeText, StripEveryCR))
        /\ \A i \in 1..Len(frames) : ~EndsWith(frames[i].data, "\r")

\* what the decoder does: the lines ended by "\n" are stripped, so a body
\* that does not end in "\r" gives no data value with a trailing "\r"
C21_TerminatedLinesStripped ==
    (Consumed /\ isSSE /\ ~EndsWith(WholeText, "\r")) =>
        \A i \in 1..Len(frames) : ~EndsWith(frames[i].data, "\r")

-----------------------------------------------------------------------------
(* Event blocks: event streams of up to MaxBlockLines lines, each an event  *)
(* name, a data line, a sentinel or a blank line, consumed by the same      *)
(* reads.                                                                   *)

MaxBlockLines == 4

BlockLineVals == <<"", "data: a", "data:[DONE]", "event: x ">>

RECURSIVE BlockBodyOf(_, _)
BlockBodyOf(ls, lastEnd) ==
    IF ls = <<>> THEN ""
    ELSE IF Len(ls) = 1 THEN BlockLineVals[ls[1]] \o lastEnd
    ELSE BlockLineVals[ls[1]] \o "\n" \o BlockBodyOf(Tail(ls), lastEnd)

BlockBodies ==
    UNION { { BlockBodyOf(ls, last) : ls \in [1..n -> 1..Len(BlockLineVals)],
                                      last \in {"\n", ""} } :
            n \in 1..MaxBlockLines }

InitBlocks ==
    /\ phase = "stream"
    /\ isSSE = TRUE
    /\ whole \in BlockBodies
    /\ wire = whole
    /\ dec = DecLocals
    /\ frames = <<>>
    /\ chunks = <<>>
    /\ signal = "none"
    /\ lateChunks = 0
    /\ reader = "locked"
    /\ ExtractIdle
    /\ AuthIdle
    /\ PageIdle

NextBlocks == Read \/ ReadDone

SpecBlocks == InitBlocks /\ [][NextBlocks]_vars

\* C17: no frame content can fail or end the consumption: after a frame
\* that is discarded or malformed the call does not reject, and every later
\* frame of the stream is still decoded and, if it has text, delivered.
C17_ConsumptionGoesOn ==
    /\ phase \in {"stream", "consumed"}
    /\ isSSE => chunks = ChunksOf(frames)
    /\ (Consumed /\ isSSE) => frames = FramesOf(WholeText, AsDecoded)

\* a sentinel frame came first, and the frame after it was delivered
C17_Witness ==
    /\ Consumed /\ isSSE
    /\ whole = "data:[DONE]\n\nevent: x \ndata: a\n"
    /\ DataOf(frames) = <<"[DONE]", "a">>
    /\ chunks = <<[text |-> "a", mode |-> "append", event |-> "x", raw |-> Str("a")]>>

\* C19: a blank line received while no data line is pending is a no-op: it
\* emits no frame and leaves the whole decoder state unchanged, the current
\* event name included.
C19_IdleBlankIsNoOp ==
    (isSSE /\ phase = "stream" /\ dec.dataLines = <<>> /\ dec.buffer = "" /\ dec.pending = "")
        => ReadPiece(WithOutput(dec, frames, chunks), "\n") = WithOutput(dec, frames, chunks)

\* what the decoder does keep at such a blank line: everything but the name
C19_IdleBlankEmitsNothing ==
    (isSSE /\ phase = "stream" /\ dec.dataLines = <<>> /\ dec.buffer = "" /\ dec.pending = "")
        => ReadPiece(WithOutput(dec, frames, chunks), "\n")
              = [WithOutput(dec, frames, chunks) EXCEPT !.currentEvent = "message"]

\* the example of the claim: event: x, blank line, data, blank line
C19_EventSurvivesBlank ==
    (Consumed /\ whole = "event: x \n\ndata: a\n\n") => EventsOf(chunks) = <<"x">>

\* C20: every delivered chunk's event is the trimmed value of the last
\* event: line of its own block (since the previous blank line), or
\* "message" when the block has none or the value is empty; the name is
\* reset after a frame is emitted or discarded and never carries over.
C20_EventOfOwnBlock ==
    /\ isSSE => chunks = ChunksOf(frames)
    /\ (Consumed /\ isSSE) =>
            /\ EventsOf(frames) = EventsOf(FramesOf(WholeText, AsDecoded))
            /\ dec.currentEvent = "message"

\* a named frame was followed by an unnamed one, delivered as "message"
C20_Witness ==
    /\ Consumed /\ isSSE
    /\ whole = "event: x \ndata: a\n\ndata: a"
    /\ EventsOf(chunks) = <<"x", "message">>

-----------------------------------------------------------------------------
(* The calls of sendMessageStream, their requests and the interceptor     *)

InitAuth ==
    /\ phase = "auth"
    /\ ExtractIdle
    /\ StreamIdle
    /\ localStorage \in {LoggedIn, LoggedOut}
    /\ isRefreshing = FALSE
    /\ failedQueue = <<>>
    /\ pc = [c \in Calls |-> "idle"]
    /\ accessToken = [c \in Calls |-> Null]
    /\ response = [c \in Calls |-> NoResponse]
    /\ axios = [c \in Calls |-> NoRequest]
    /\ posts = [c \in Calls |-> <<>>]
    /\ answers = [c \in Calls |-> <<>>]
    /\ refreshPosts = [c \in Calls |-> 0]
    /\ delivered = [c \in Calls |-> <<>>]
    /\ outcome = [c \in Calls |-> Pending]
    /\ location = "/"
    /\ nextToken = 2
    /\ PageIdle

\* streamMessageRequest: the bearer tokens of the call's POSTs so far, with
\* the one of the request being issued
streamMessageRequest(sent, token) == Append(sent, token)

\* api.ts:405-409: the call reads the stored token and issues the request
sendMessageStream(c) ==
    /\ phase = "auth" /\ pc[c] = "idle"
    /\ accessToken' = [accessToken EXCEPT ![c] = getAuthToken(localStorage)]
    /\ posts' = [posts EXCEPT ![c] = streamMessageRequest(@, getAuthToken(localStorage))]
    /\ pc' = [pc EXCEPT ![c] = "fetch1"]
    /\ UNCHANGED <<phase, extractVars, pageVars, streamVars, localStorage, isRefreshing,
                   failedQueue, response, axios, answers, refreshPosts, delivered,
                   outcome, location, nextToken>>

\* api.ts:431-458 up to the next await, for the final response r
AfterFinal(c, r) ==
    /\ response' = [response EXCEPT ![c] = r]
    /\ IF ~Ok(r) THEN
            /\ pc' = [pc EXCEPT ![c] = "errText"]
            /\ localStorage' = IF r.status = 401 THEN clearAuth(localStorage)
                               ELSE localStorage
            /\ location' = IF r.status = 401 THEN "/login" ELSE location
            /\ UNCHANGED outcome
       ELSE IF ~r.hasBody THEN
            /\ pc' = [pc EXCEPT ![c] = "resolved"]
            /\ outcome' = [outcome EXCEPT ![c] = Resolved]
            /\ UNCHANGED <<localStorage, location>>
       ELSE
            /\ pc' = [pc EXCEPT ![c] =
                        IF r.ctype = "text/event-stream" THEN "consume" ELSE "bodyText"]
            /\ UNCHANGED <<localStorage, location, outcome>>

\* the first streaming request is answered, api.ts:409-429
FirstAnswered(c) ==
    /\ phase = "auth" /\ pc[c] = "fetch1"
    /\ \E r \in StreamAnswers :
        /\ answers' = [answers EXCEPT ![c] = Append(@, r)]
        /\ IF r.status = 401 THEN
                /\ response' = [response EXCEPT ![c] = r]
                /\ IF getRefreshToken(localStorage) # Null THEN
                        \* this.refreshToken(refreshToken): POST /auth/refresh
                        /\ axios' = [axios EXCEPT ![c] = [st |-> "inflight", retry |-> FALSE]]
                        /\ refreshPosts' = [refreshPosts EXCEPT ![c] = @ + 1]
                        /\ pc' = [pc EXCEPT ![c] = "refresh"]
                        /\ UNCHANGED <<localStorage, location, outcome>>
                   ELSE
                        /\ localStorage' = clearAuth(localStorage)
                        /\ location' = "/login"
                        /\ pc' = [pc EXCEPT ![c] = "rejected"]
                        /\ outcome' = [outcome EXCEPT ![c] = Rejected("Unauthorized")]
                        /\ UNCHANGED <<axios, refreshPosts>>
           ELSE
                /\ AfterFinal(c, r)
                /\ UNCHANGED <<axios, refreshPosts>>
    /\ UNCHANGED <<phase, extractVars, pageVars, streamVars, isRefreshing, failedQueue,
                   accessToken, posts, delivered, nextToken>>

\* the first fetch() rejects: a transport error or an abort, api.ts:409
FirstFailed(c) ==
    /\ phase = "auth" /\ pc[c] = "fetch1"
    /\ pc' = [pc EXCEPT ![c] = "rejected"]
    /\ outcome' = [outcome EXCEPT ![c] = Rejected(TransportError)]
    /\ UNCHANGED <<phase, extractVars, pageVars, streamVars, localStorage, isRefreshing,
                   failedQueue, accessToken, response, axios, posts, answers,
                   refreshPosts, delivered, location, nextToken>>

\* the retry is answered, api.ts:418 and 431-458
RetryAnswered(c) ==
    /\ phase = "auth" /\ pc[c] = "fetch2"
    /\ \E r \in StreamAnswers :
        /\ answers' = [answers EXCEPT ![c] = Append(@, r)]
        /\ AfterFinal(c, r)
    /\ UNCHANGED <<phase, extractVars, pageVars, streamVars, isRefreshing, failedQueue,
                   accessToken, axios, posts, refreshPosts, delivered, nextToken>>

\* the retry's fetch() rejects inside the try block: the catch at
\* api.ts:419-423 clears the store and rethrows
RetryFailed(c) ==
    /\ phase = "auth" /\ pc[c] = "fetch2"
    /\ localStorage' = clearAuth(localStorage)
    /\ location' = "/login"
    /\ pc' = [pc EXCEPT ![c] = "rejected"]
    /\ outcome' = [outcome EXCEPT ![c] = Rejected(TransportError)]
    /\ UNCHANGED <<phase, extractVars, pageVars, streamVars, isRefreshing, failedQueue,
                   accessToken, response, axios, posts, answers, refreshPosts,
                   delivered, nextToken>>

\* await response.text() of a failed response, then the throw, api.ts:437-443
ErrText(c) ==
    /\ phase = "auth" /\ pc[c] = "errText"
    /\ LET detail == IF response[c].readable THEN response[c].body ELSE ""
       IN outcome' = [outcome EXCEPT ![c] =
                        Rejected(StreamError(response[c].status, detail))]
    /\ pc' = [pc EXCEPT ![c] = "rejected"]
    /\ UNCHANGED <<phase, extractVars, pageVars, streamVars, localStorage, isRefreshing,
                   failedQueue, accessToken, response, axios, posts, answers,
                   refreshPosts, delivered, location, nextToken>>

\* the body of a response that is not an event stream, api.ts:449-456
BodyText(c) ==
    /\ phase = "auth" /\ pc[c] = "bodyText"
    /\ IF response[c].readable THEN
            /\ delivered' = [delivered EXCEPT ![c] = SinglePayload(response[c].body)]
            /\ pc' = [pc EXCEPT ![c] = "resolved"]
            /\ outcome' = [outcome EXCEPT ![c] = Resolved]
       ELSE
            /\ pc' = [pc EXCEPT ![c] = "rejected"]
            /\ outcome' = [outcome EXCEPT ![c] = Rejected(TransportError)]
            /\ UNCHANGED delivered
    /\ UNCHANGED <<phase, extractVars, pageVars, streamVars, localStorage, isRefreshing,
                   failedQueue, accessToken, response, axios, posts, answers,
                   refreshPosts, location, nextToken>>

\* consumeSSEStream on the body r, api.ts:458: the chunks delivered and the
\* way the call settles, when the stream ends or when it breaks off after
\* some prefix of it was read
ConsumeOutcomes(r) ==
    IF r.readable
    THEN {[chunks |-> ConsumeWhole(r.body).chunks, settled |-> Resolved]}
    ELSE {[chunks |-> IF n = 0 THEN <<>>
                      ELSE ReadPiece(DecInit, SubSeq(r.body, 1, n)).chunks,
           settled |-> Rejected(TransportError)] : n \in 0..(Len(r.body) - 1)}

Consume(c) ==
    /\ phase = "auth" /\ pc[c] = "consume"
    /\ \E out \in ConsumeOutcomes(response[c]) :
        /\ delivered' = [delivered EXCEPT ![c] = out.chunks]
        /\ pc' = [pc EXCEPT ![c] = out.settled.state]
        /\ outcome' = [outcome EXCEPT ![c] = out.settled]
    /\ UNCHANGED <<phase, extractVars, pageVars, streamVars, localStorage, isRefreshing,
                   failedQueue, accessToken, response, axios, posts, answers,
                   refreshPosts, location, nextToken>>

\* the calls whose request is parked in failedQueue
Parked == {failedQueue[i] : i \in 1..Len(failedQueue)}

\* processQueue(null): every parked request is issued again,
\* api.ts:78 and 118-124
Reissued(rq) ==
    [st |-> IF rq.st = "parked" THEN "inflight" ELSE "nested", retry |-> rq.retry]

\* the catch of sendMessageStream, api.ts:419-423, for the calls in cs
CatchRefreshErr(cs, err) ==
    /\ pc' = [b \in Calls |-> IF b \in cs THEN "rejected" ELSE pc[b]]
    /\ outcome' = [b \in Calls |-> IF b \in cs THEN Rejected(err) ELSE outcome[b]]
    /\ localStorage' = clearAuth(localStorage)
    /\ location' = "/login"

\* the call's /auth/refresh request (the original one, or the one the
\* interceptor issued again) is answered: api.ts:69-115 and 414-423
RefreshAnswered(c) ==
    /\ phase = "auth" /\ pc[c] = "refresh" /\ axios[c].st = "inflight"
    /\ \E status \in RefreshAnswers :
        IF status = 200 THEN
            \* refreshed.access_token is stored and the retry is issued
            /\ accessToken' = [accessToken EXCEPT ![c] = nextToken]
            /\ localStorage' = setAuthToken(localStorage, nextToken)
            /\ posts' = [posts EXCEPT ![c] = streamMessageRequest(@, nextToken)]
            /\ nextToken' = nextToken + 1
            /\ pc' = [pc EXCEPT ![c] = "fetch2"]
            /\ axios' = [axios EXCEPT ![c] = NoRequest]
            /\ UNCHANGED <<isRefreshing, failedQueue, refreshPosts, outcome, location>>
        ELSE IF status = 401 /\ ~axios[c].retry THEN
            IF isRefreshing THEN
                \* api.ts:75-79: parked until processQueue
                /\ failedQueue' = Append(failedQueue, c)
                /\ axios' = [axios EXCEPT ![c].st = "parked"]
                /\ UNCHANGED <<accessToken, localStorage, posts, nextToken, pc,
                               isRefreshing, refreshPosts, outcome, location>>
            ELSE IF getRefreshToken(localStorage) = Null THEN
                \* api.ts:81-91: isRefreshing stays set
                /\ isRefreshing' = TRUE
                /\ axios' = [axios EXCEPT ![c] = NoRequest]
                /\ CatchRefreshErr({c}, AxiosError(401))
                /\ UNCHANGED <<accessToken, posts, nextToken, failedQueue, refreshPosts>>
            ELSE
                \* api.ts:81-94: the interceptor sends its own /auth/refresh
                /\ isRefreshing' = TRUE
                /\ axios' = [axios EXCEPT ![c] = [st |-> "nested", retry |-> TRUE]]
                /\ refreshPosts' = [refreshPosts EXCEPT ![c] = @ + 1]
                /\ UNCHANGED <<accessToken, localStorage, posts, nextToken, pc,
                               failedQueue, outcome, location>>
        ELSE
            \* api.ts:113 and 419-423
            /\ axios' = [axios EXCEPT ![c] = NoRequest]
            /\ CatchRefreshErr({c}, AxiosError(status))
            /\ UNCHANGED <<accessToken, posts, nextToken, isRefreshing, failedQueue,
                           refreshPosts>>
    /\ UNCHANGED <<phase, extractVars, pageVars, streamVars, response, answers, delivered>>

\* the /auth/refresh request of the interceptor is answered, api.ts:93-110
NestedAnswered(c) ==
    /\ phase = "auth" /\ pc[c] = "refresh" /\ axios[c].st = "nested"
    /\ \E status \in RefreshAnswers :
        IF status = 200 THEN
            \* api.ts:95-102 and the finally: the token is stored, the queue
            \* released and the original request sent again
            /\ localStorage' = setAuthToken(localStorage, nextToken)
            /\ nextToken' = nextToken + 1
            /\ axios' = [b \in Calls |->
                            IF b = c THEN [st |-> "inflight", retry |-> TRUE]
                            ELSE IF b \in Parked THEN Reissued(axios[b])
                            ELSE axios[b]]
            /\ refreshPosts' = [b \in Calls |->
                            IF b = c \/ b \in Parked THEN refreshPosts[b] + 1
                            ELSE refreshPosts[b]]
            /\ failedQueue' = <<>>
            /\ isRefreshing' = FALSE
            /\ UNCHANGED <<pc, outcome, location>>
        ELSE IF status = 401 THEN
            \* the interceptor runs for this request too: isRefreshing is
            \* set, so it is parked, api.ts:75-79
            /\ isRefreshing
            /\ failedQueue' = Append(failedQueue, c)
            /\ axios' = [axios EXCEPT ![c].st = "nestedParked"]
            /\ UNCHANGED <<localStorage, nextToken, refreshPosts, isRefreshing,
                           pc, outcome, location>>
        ELSE
            \* api.ts:103-110 and 419-423: the parked calls and this one fail
            /\ axios' = [b \in Calls |->
                            IF b = c \/ b \in Parked THEN NoRequest ELSE axios[b]]
            /\ failedQueue' = <<>>
            /\ isRefreshing' = FALSE
            /\ CatchRefreshErr(Parked \cup {c}, AxiosError(status))
            /\ UNCHANGED <<nextToken, refreshPosts>>
    /\ UNCHANGED <<phase, extractVars, pageVars, streamVars, accessToken, response, posts,
                   answers, delivered>>

NextAuth ==
    \E c \in Calls :
        \/ sendMessageStream(c)
        \/ FirstAnswered(c)
        \/ FirstFailed(c)
        \/ RetryAnswered(c)
        \/ RetryFailed(c)
        \/ ErrText(c)
        \/ BodyText(c)
        \/ Consume(c)
        \/ RefreshAnswered(c)
        \/ NestedAnswered(c)

SpecAuth == InitAuth /\ [][NextAuth]_vars

\* a request of call c is answered or fails, or the read of a body that
\* arrives in one piece completes
Respond(c) ==
    \/ FirstAnswered(c)
    \/ FirstFailed(c)
    \/ RetryAnswered(c)
    \/ RetryFailed(c)
    \/ ErrText(c)
    \/ BodyText(c)
    \/ RefreshAnswered(c)
    \/ NestedAnswered(c)

\* every request that is in flight is eventually answered, and every body
\* that is being read eventually ends.  Consume(c) is enabled exactly when
\* pc[c] = "consume" and is the only step that leaves it, so the second
\* conjunct is WF_vars(Consume(c)).
Fairness ==
    \A c \in Calls :
        /\ WF_vars(Respond(c))
        /\ []<>(pc[c] # "consume")

SpecAuthFair == InitAuth /\ [][NextAuth]_vars /\ Fairness

\* the interceptor's own refresh request is in flight only while
\* isRefreshing is set (so that its 401 is always parked)
NestedWhileRefreshing ==
    \A c \in Calls : axios[c].st \in {"nested", "nestedParked"} => isRefreshing

-----------------------------------------------------------------------------
(* Claims about sendMessageStream                                          *)

\* t occurs in s
Contains(s, t) ==
    \E i \in 1..(Len(s) - Len(t) + 1) : SubSeq(s, i, i + Len(t) - 1) = t

Settled(c) == outcome[c].state # "pending"

\* the first response was 401, the refresh succeeded and the retry was
\* answered 401 again
SecondIs401(c) ==
    /\ Len(answers[c]) = 2
    /\ answers[c][1].status = 401
    /\ answers[c][2].status = 401

\* the first response was a failure other than 401
FirstFails(c) ==
    /\ Len(answers[c]) >= 1
    /\ ~Ok(answers[c][1])
    /\ answers[c][1].status # 401

\* C1: every call issues at most two streaming POSTs, whatever the answers
\* and the concurrent calls; after 401, a successful refresh and a second
\* 401 there is no third request and the call rejects with the stored access
\* token, refresh token and user cleared.
C1_RetryOnce ==
    \A c \in Calls :
        /\ Len(posts[c]) <= 2
        /\ SecondIs401(c) =>
            /\ pc[c] \in {"errText", "rejected"}
            /\ pc[c] = "rejected" =>
                /\ outcome[c] = Rejected(StreamError(401, answers[c][2].body))
                /\ localStorage = LoggedOut

\* the part of C1 that does not depend on the other calls: at most two
\* streaming POSTs, and the step that receives the second 401 clears the store
C1_AtMostTwoPosts ==
    /\ [](\A c \in Calls : Len(posts[c]) <= 2)
    /\ [][\A c \in Calls :
            (~SecondIs401(c) /\ SecondIs401(c)') => localStorage' = LoggedOut]_vars

\* C2: every call of sendMessageStream that was started eventually settles,
\* given that every request is answered and every body ends.
C2_Settles ==
    \A c \in Calls : (pc[c] # "idle") ~> Settled(c)

\* C3: when the first streaming response is 401 and no refresh token is
\* stored, the call sends no refresh request and no second streaming POST,
\* clears the access token, refresh token and user, delivers no chunk and
\* rejects.
C3_NoRefreshToken ==
    /\ [][\A c \in Calls :
            ( /\ pc[c] = "fetch1"
              /\ Len(answers'[c]) = 1
              /\ answers'[c][1].status = 401
              /\ getRefreshToken(localStorage) = Null )
            => /\ refreshPosts'[c] = 0
               /\ Len(posts'[c]) = 1
               /\ localStorage' = LoggedOut
               /\ delivered'[c] = <<>>
               /\ pc'[c] = "rejected"
               /\ outcome'[c] = Rejected("Unauthorized")]_vars
    /\ [](\A c \in Calls :
            outcome[c] = Rejected("Unauthorized")
            => /\ refreshPosts[c] = 0
               /\ Len(posts[c]) = 1
               /\ delivered[c] = <<>>)

\* the call was sent with a token, the store was cleared meanwhile, and the
\* 401 found no refresh token
C3_Witness ==
    \E c \in Calls :
        /\ posts[c] = <<1>>
        /\ answers[c] # <<>> /\ answers[c][1].status = 401
        /\ outcome[c] = Rejected("Unauthorized")
        /\ refreshPosts[c] = 0
        /\ localStorage = LoggedOut

\* C4: when the first streaming response is a failure other than 401, the
\* call sends no refresh request and no second streaming POST, its steps
\* leave the store unchanged, onChunk is never invoked, and it rejects with
\* an error that contains the status and the body text.
C4_OtherFailure ==
    /\ [](\A c \in Calls :
            FirstFails(c)
            => /\ Len(posts[c]) = 1
               /\ refreshPosts[c] = 0
               /\ delivered[c] = <<>>
               /\ pc[c] \in {"errText", "rejected"}
               /\ pc[c] = "rejected" =>
                    /\ outcome[c].state = "rejected"
                    /\ Contains(outcome[c].error, ToString(answers[c][1].status))
                    /\ answers[c][1].readable =>
                            Contains(outcome[c].error, answers[c][1].body))
    /\ [][\A c \in Calls :
            (FirstFails(c)' /\ pc'[c] # pc[c]) => localStorage' = localStorage]_vars

C4_Witness ==
    \E c \in Calls :
        /\ FirstFails(c)
        /\ answers[c][1].body = "boom" /\ answers[c][1].readable
        /\ outcome[c] = Rejected("Stream request failed (500): boom")
        /\ localStorage = LoggedIn

\* C5: when the first streaming response is 401 and the refresh succeeds, the
\* step that issues the retry has written the new access token to the store,
\* the retry is the second and last POST and carries that token, which is not
\* the token of the first POST, and the stored refresh token is unchanged.
C5_RetryCarriesNewToken ==
    /\ [][\A c \in Calls :
            (pc[c] = "refresh" /\ pc'[c] = "fetch2")
            => /\ accessToken'[c] = nextToken
               /\ getAuthToken(localStorage') = accessToken'[c]
               /\ posts'[c] = <<posts[c][1], accessToken'[c]>>
               /\ accessToken'[c] # posts[c][1]
               /\ getRefreshToken(localStorage') = getRefreshToken(localStorage)]_vars
    /\ [](\A c \in Calls :
            Len(posts[c]) = 2
            => /\ answers[c][1].status = 401
               /\ posts[c][2] = accessToken[c]
               /\ posts[c][2] # posts[c][1])

C5_Witness ==
    \E c \in Calls :
        /\ pc[c] = "fetch2"
        /\ posts[c] = <<1, 2>>
        /\ localStorage = [authToken |-> 2, refreshToken |-> 1, user |-> 1]

\* call c ended in an authentication failure: a 401 with no refresh token
\* stored, a failed refresh, or a 401 on the retry
AuthFailure(c) ==
    \/ outcome[c] = Rejected("Unauthorized")
    \/ \E status \in RefreshAnswers : outcome[c] = Rejected(AxiosError(status))
    \/ SecondIs401(c)

\* C24: a transport error or a cancellation of a streaming POST, the first
\* request or the retry after a successful refresh, is surfaced as a
\* rejection and never changes the stored credentials: the credentials are
\* cleared (and the page sent to /login) only on an authentication failure.
C24_ClearedOnlyOnAuthFailure ==
    /\ \A c \in Calls :
            (pc[c] = "rejected" /\ Len(answers[c]) < Len(posts[c]))
                => outcome[c] = Rejected(TransportError)
    /\ location = "/login" => \E c \in Calls : AuthFailure(c)

\* what holds of it: the first request's failure rejects the call and
\* leaves the store and the location as they are
C24_FirstRequestFailure ==
    [][\A c \in Calls :
        (pc[c] = "fetch1" /\ outcome'[c] = Rejected(TransportError))
            => (localStorage' = localStorage /\ location' = location)]_vars

\* the same statement for the retry: the step in which the retry's failure
\* rejects the call leaves the store as it is
C24_RetryFailureKeepsStore ==
    [][\A c \in Calls :
        (pc[c] = "fetch2" /\ outcome'[c] = Rejected(TransportError))
            => localStorage' = localStorage]_vars

\* C25: the credential refresh of a call is one-shot: during one call at
\* most one refresh request is sent to the backend, whatever status the
\* refresh request is answered with.
C25_OneRefreshPerCall ==
    \A c \in Calls : refreshPosts[c] <= 1

\* the interceptor's 401 handler is running for a request of some call: its
\* own refresh is in flight, or the 401 of that refresh is parked
HandlerRunning ==
    \E c \in Calls : axios[c].st \in {"nested", "nestedParked"}

\* C27: the isRefreshing flag is true only while a refresh started by the
\* interceptor is in flight: on every path through the 401 handler the flag
\* is false again once the handler has finished.
C27_FlagOnlyWhileRefreshing ==
    isRefreshing => HandlerRunning

\* what holds of it: the handler's refresh answered 200 or 500 resets the flag
C27_FlagResetAfterRefresh ==
    [][\A c \in Calls :
        (axios[c].st = "nested" /\ axios'[c].st \notin {"nested", "nestedParked"})
            => ~isRefreshing']_vars

\* C28: every request that is parked in failedQueue is eventually released,
\* given that every request is answered: none stays parked forever, and the
\* queue is empty afterwards.
C28_ParkedIsReleased ==
    \A c \in Calls : (c \in Parked) ~> (failedQueue = <<>>)

\* C29: after an authentication failure has cleared the credentials (and
\* sent the page to /login) the store holds no access token, for every
\* interleaving with the refreshes that were in flight: a refresh that
\* completes after the clear does not write an access token back.
C29_NoTokenAfterClear ==
    location = "/login" => getAuthToken(localStorage) = Null

\* what holds of it: the steps of a call that has no refresh in flight
\* never store a token
C29_OnlyRefreshStores ==
    [][getAuthToken(localStorage') \in {getAuthToken(localStorage), Null}
        \/ \E c \in Calls : pc[c] = "refresh"]_vars

-----------------------------------------------------------------------------
(* The chat page (Chat.tsx): a send adds the optimistic user message and   *)
(* the assistant placeholder to the cached chat, and the chunk sink writes  *)
(* each chunk into the placeholder.  The cache entry is undefined or a chat *)
(* with a messages array, as getChat returns it; a refetch of the chat      *)
(* query may replace it while the chunks arrive.                           *)

MaxChunks == 3

userTempId == "tmp-user"
assistantTempId == "tmp-assistant"

Message(id, role, content) == [id |-> id, role |-> role, content |-> content]

ServerMessages == {
    <<>>,
    <<Message("m1", "user", Str("hi"))>>,
    <<Message("m1", "user", Str("hi")),
      Message("m2", "assistant", Arr(<<Obj([type |-> Str("text"), text |-> Str("yo")])>>))>> }

\* what getChat resolves with
ServerChats == { [title |-> "T", messages |-> m] : m \in ServerMessages }

\* JSON.stringify on the values of message contents that are not text
Stringify(x) ==
    CASE x.t = "number" -> ToString(x.v)
      [] x.t = "boolean" -> IF x.v THEN "true" ELSE "false"
      [] x.t = "null" -> "null"
      [] x.t = "string" -> "\"" \o x.v \o "\""
      [] x.t = "array" /\ x.v = <<>> -> "[]"
      [] x.t = "object" /\ DOMAIN x.v = {} -> "{}"
      [] OTHER -> "{...}"

\* the callback of content.map(...) in getMessageText, Chat.tsx:29-39
MessageItemText(item) ==
    IF IsString(item) THEN item.v
    ELSE IF Truthy(item) /\ item.t = "object" /\ "text" \in DOMAIN item.v
            /\ IsString(item.v["text"])
        THEN item.v["text"].v
    ELSE Stringify(item)

RECURSIVE JoinWithNL(_)
JoinWithNL(a) ==
    IF a = <<>> THEN ""
    ELSE IF Len(a) = 1 THEN MessageItemText(a[1])
    ELSE MessageItemText(a[1]) \o "\n" \o JoinWithNL(Tail(a))

getMessageText(content) ==
    IF IsString(content) THEN content.v
    ELSE IF IsNullish(content) THEN ""
    ELSE IF IsArray(content) THEN JoinWithNL(content.v)
    ELSE Stringify(content)

\* the updater of onMutate, Chat.tsx:126-142 (created_at left out)
onMutateUpdater(old, content) ==
    IF old = Undefined THEN old
    ELSE [old EXCEPT !.messages =
            @ \o <<Message(userTempId, "user", Str(content)),
                   Message(assistantTempId, "assistant", Str(""))>>]

\* an updater for which every chunk is an increment
onChunkUpdater_AlwaysAppends(old, chunk) ==
    IF old = Undefined THEN old
    ELSE [old EXCEPT !.messages =
            [i \in 1..Len(old.messages) |->
                LET msg == old.messages[i] IN
                IF msg.id # assistantTempId THEN msg
                ELSE [msg EXCEPT !.content =
                        Str(getMessageText(msg.content) \o chunk.text)]]]

\* the updater of the chunk sink, Chat.tsx:96-111
onChunkUpdater(old, chunk) ==
    IF old = Undefined THEN old
    ELSE [old EXCEPT !.messages =
            [i \in 1..Len(old.messages) |->
                LET msg == old.messages[i]
                    previousText == getMessageText(msg.content)
                    nextText == IF chunk.mode = "replace" THEN chunk.text
                                ELSE previousText \o chunk.text
                IN
                IF msg.id # assistantTempId THEN msg
                ELSE [msg EXCEPT !.content = Str(nextText)]]]

\* the chunks sendMessageStream hands to the sink
SinkChunks ==
    { [text |-> t, mode |-> m, event |-> "message", raw |-> Str(t)] :
        t \in {"a", "b"}, m \in {"append", "replace"} }

InitPage ==
    /\ phase = "page"
    /\ cache \in {Undefined} \cup ServerChats
    /\ ExtractIdle
    /\ StreamIdle
    /\ AuthIdle

\* sendMsgM.onMutate: the optimistic messages are added
onMutate ==
    /\ phase = "page"
    /\ cache' = onMutateUpdater(cache, "q")
    /\ phase' = "sending"
    /\ UNCHANGED <<extractVars, streamVars, authVars>>

\* the sink is handed a chunk
onChunk ==
    /\ phase = "sending"
    /\ Len(chunks) < MaxChunks
    /\ \E chunk \in SinkChunks :
        /\ cache' = onChunkUpdater(cache, chunk)
        /\ chunks' = Append(chunks, chunk)
    /\ UNCHANGED <<phase, whole, wire, isSSE, dec, frames, signal, lateChunks,
                   reader, extractVars, authVars>>

\* the chat query is fetched again while the chunks arrive, and its result
\* replaces the cache entry, Chat.tsx:63-67
Refetch ==
    /\ phase = "sending"
    /\ cache' \in ServerChats
    /\ cache' # cache
    /\ UNCHANGED <<phase, extractVars, streamVars, authVars>>

NextPage == onMutate \/ onChunk \/ Refetch

SpecPage == InitPage /\ [][NextPage]_vars

\* the positions of the placeholder in the cached chat c
Placeholder(c) ==
    IF c = Undefined THEN {}
    ELSE {i \in 1..Len(c.messages) : c.messages[i].id = assistantTempId}

\* the fold of the chunks cs over the text
RECURSIVE FoldChunks(_, _)
FoldChunks(text, cs) ==
    IF cs = <<>> THEN text
    ELSE FoldChunks(IF Head(cs).mode = "replace" THEN Head(cs).text
                    ELSE text \o Head(cs).text,
                    Tail(cs))

C30_WitnessRefetched ==
    /\ phase = "sending"
    /\ Len(chunks) = 3
    /\ cache \in ServerChats

-----------------------------------------------------------------------------
(* consumeSSEStream under a cancellation signal and a sink that may throw. *)
(* The signal is wired to fetch (api.ts:340): once it is triggered the body *)
(* stream is errored and the next reader.read() rejects with an AbortError. *)
(* consumeSSEStream itself never looks at the signal, and never cancels or  *)
(* releases its reader: reader is "locked" from getReader() on, "closed"    *)
(* when the stream has ended and "errored" when the signal has errored it.  *)

CancelBodies == {
    "data: a\n\ndata:  b\n\n",
    "data: a\n\ndata:  b",
    "event: x\ndata: a\n\ndata:[DONE]\n\ndata:  b\n\n" }

InitCancel ==
    /\ phase = "cancel"
    /\ isSSE = TRUE
    /\ whole \in CancelBodies
    /\ wire = whole
    /\ dec = DecLocals /\ frames = <<>> /\ chunks = <<>>
    /\ signal = "none" /\ lateChunks = 0
    /\ reader = "locked"
    /\ ExtractIdle
    /\ AuthIdle
    /\ PageIdle

\* reader.read() resolves with a piece and the inner loop handles its
\* lines, api.ts:271-298; the sink may trigger the signal in any of the
\* onChunk calls, and the loop goes on with the lines left in the buffer
CancelRead ==
    /\ phase = "cancel" /\ signal = "none" /\ wire # ""
    /\ \E n \in 1..Len(wire) :
        LET d == ReadPiece(WithOutput(dec, frames, chunks), SubSeq(wire, 1, n))
            m == Len(d.chunks) - Len(chunks)
        IN
        /\ wire' = SubSeq(wire, n + 1, Len(wire))
        /\ dec' = LocalsOf(d)
        /\ frames' = d.frames
        /\ chunks' = d.chunks
        /\ \/ signal' = "none" /\ lateChunks' = lateChunks /\ reader' = reader
           \/ \E k \in 1..m :
                /\ signal' = "aborted"
                /\ lateChunks' = lateChunks + (m - k)
                /\ reader' = "errored"
    /\ UNCHANGED <<phase, whole, isSSE, extractVars, pageVars, authVars>>

\* the caller triggers the signal while the loop awaits reader.read()
Abort ==
    /\ phase = "cancel" /\ signal = "none"
    /\ signal' = "aborted"
    /\ reader' = "errored"
    /\ UNCHANGED <<phase, whole, wire, isSSE, dec, frames, chunks, lateChunks,
                   extractVars, pageVars, authVars>>

\* reader.read() rejects with the AbortError, which consumeSSEStream and
\* sendMessageStream pass on, api.ts:271 and 458
ReadRejected ==
    /\ phase = "cancel" /\ signal = "aborted"
    /\ phase' = "cancelled"
    /\ UNCHANGED <<extractVars, pageVars, streamVars, authVars>>

\* reader.read() resolves with done: the trailing flush, api.ts:301-320;
\* the sink may trigger the signal in its onChunk call
CancelReadDone ==
    /\ phase = "cancel" /\ signal = "none" /\ wire = ""
    /\ LET d == EndOfStream(WithOutput(dec, frames, chunks)) IN
        /\ dec' = LocalsOf(d)
        /\ frames' = d.frames
        /\ chunks' = d.chunks
        /\ \/ signal' = "none"
           \/ Len(d.chunks) > Len(chunks) /\ signal' = "aborted"
    /\ phase' = "consumed"
    /\ reader' = "closed"
    /\ UNCHANGED <<whole, wire, isSSE, lateChunks, extractVars, pageVars, authVars>>

\* reader.read() resolves with a piece whose last byte completes a frame,
\* and the sink throws in the onChunk call for it, api.ts:263-265: the
\* exception leaves flushEvent, the loops and consumeSSEStream, whose locals
\* are dead from then on; nothing catches it and nothing touches the reader
SinkThrows ==
    /\ phase = "cancel" /\ signal = "none" /\ wire # ""
    /\ \E n \in 1..Len(wire) :
        LET d == ReadPiece(WithOutput(dec, frames, chunks), SubSeq(wire, 1, n))
            before == IF n = 1 THEN WithOutput(dec, frames, chunks)
                      ELSE ReadPiece(WithOutput(dec, frames, chunks),
                                     SubSeq(wire, 1, n - 1))
        IN
        /\ Len(before.chunks) = Len(chunks)
        /\ Len(d.chunks) = Len(chunks) + 1
        /\ wire' = SubSeq(wire, n + 1, Len(wire))
        /\ dec' = LocalsOf(d)
        /\ frames' = d.frames
        /\ chunks' = d.chunks
    /\ phase' = "threw"
    /\ UNCHANGED <<whole, isSSE, signal, lateChunks, reader, extractVars, pageVars, authVars>>

NextCancel == CancelRead \/ Abort \/ ReadRejected \/ CancelReadDone \/ SinkThrows

SpecCancel == InitCancel /\ [][NextCancel]_vars

\* C13: once the signal has been triggered while the stream is consumed,
\* also from inside the sink with complete frames of the current piece still
\* buffered, onChunk is never invoked again, and the call settles as
\* cancelled.
C13_Cancellation ==
    /\ lateChunks = 0
    /\ (signal = "aborted" /\ phase # "cancel") => phase = "cancelled"

\* what holds of the cancellation: a signal triggered while the loop awaits
\* the next piece stops the delivery, and the call rejects with the AbortError
C13_AbortBetweenReads ==
    [][(phase = "cancel" /\ signal = "aborted" /\ lateChunks = 0)
        => (chunks' = chunks /\ lateChunks' = 0 /\ phase' = "cancelled")]_vars

\* C26: the read loop checks the signal at each suspension point and, once
\* the signal is triggered or the call ends abnormally (the sink throws),
\* abandons the reader, so that the underlying response stream is released.
C26_ReaderAbandoned ==
    phase \in {"cancelled", "threw"} => reader # "locked"

\* what holds of it: after an abort the stream is released all the same,
\* errored by fetch and not by the loop
C26_AbortErrorsStream ==
    phase = "cancelled" => reader = "errored"

=============================================================================
